---------------------------- MODULE Spec2Model ----------------------------
(***************************************************************************)
(* codemirror-mcp: resource tokens (@scheme://path) in an editor buffer,   *)
(* the catalog stores (resourcesField / promptsField) and the transaction  *)
(* filter that keeps resolved tokens atomic (resourceInputFilter).         *)
(*                                                                         *)
(* Text is a sequence of one-character strings.  Document offsets are the  *)
(* editor's 0-based offsets: the character at offset p is doc[p + 1].      *)
(***************************************************************************)
EXTENDS Integers, Sequences, FiniteSets, TLC

\* ------------------------------------------------------------------ bounds

\* A generated document is a concatenation of at most MaxPieces pieces.
MaxPieces == 3

\* A session dispatches at most MaxMerges catalog-merge transactions ...
MaxMerges == 2

\* ... and at most MaxEdits edit / selection transactions.
MaxEdits == 1

\* A text generated character by character has at most MaxTextLen of them.
MaxTextLen == 7

\* A completion is asked in a generated text of at most MaxTriggerLen
\* characters, and the provider lists at most MaxListed entries.
MaxTriggerLen == 3

MaxListed == 2

\* The host and the user call the provider and the completion source at
\* most MaxCalls times in all.
MaxCalls == 3

\* The user clicks widgets at most MaxClicks times.
MaxClicks == 2

\* ------------------------------------------------------------------- text

Token == <<"@", "a", ":", "/", "/", "b">>

Pieces == {Token, <<" ">>, <<"x">>, <<"\n">>}

RECURSIVE Texts(_)
Texts(n) ==
    IF n = 0 THEN {<<>>}
    ELSE LET shorter == Texts(n - 1)
         IN  shorter \cup {t \o p : t \in shorter, p \in Pieces}

Docs == Texts(MaxPieces)

\* \w of the pattern: letters, digits, underscore (the lower-case letters
\* and the digits the texts of the model use)
IsWordChar(c) ==
    c \in {"a", "b", "c", "d", "e", "f", "g", "h", "i", "j", "k", "l", "m",
           "n", "o", "p", "q", "r", "s", "t", "u", "v", "w", "x", "y", "z",
           "0", "1", "2", "3", "4", "5", "6", "7", "8", "9", "_"}

\* \s of the pattern, over the model's alphabet
IsWhitespace(c) == c \in {" ", "\n", "\t"}

IsSchemeChar(c) == IsWordChar(c) \/ c = "-"

IsNonSpace(c) == ~IsWhitespace(c)

\* End of the greedy run [\w-]+ started at index i: the first index >= i
\* that holds no scheme character (Len(text) + 1 if there is none).
RECURSIVE SchemeEnd(_, _)
SchemeEnd(text, i) ==
    IF i > Len(text) \/ ~IsSchemeChar(text[i]) THEN i ELSE SchemeEnd(text, i + 1)

\* End of the greedy run [^\s]+ started at index i.
RECURSIVE TailEnd(_, _)
TailEnd(text, i) ==
    IF i > Len(text) \/ ~IsNonSpace(text[i]) THEN i ELSE TailEnd(text, i + 1)

\* Mutation of PatternAfterScheme: the lookahead (?!\/) is left out
PatternWithoutLookahead(text, i, s) ==
    IF /\ s > i + 1
       /\ s + 3 <= Len(text)
       /\ text[s] = ":"
       /\ text[s + 1] = "/"
       /\ text[s + 2] = "/"
       /\ IsNonSpace(text[s + 3])
    THEN TailEnd(text, s + 3)
    ELSE 0

\* The rest of the pattern once the scheme run [\w-]+ of a match tried at
\* index i has ended at index s: ':' '/' '/', not a third '/', then [^\s]+.
\* [\w-]+ can only end where ':' follows, so the greedy run is the only split.
PatternAfterScheme(text, i, s) ==
    IF /\ s > i + 1
       /\ s + 3 <= Len(text)
       /\ text[s] = ":"
       /\ text[s + 1] = "/"
       /\ text[s + 2] = "/"
       /\ text[s + 3] # "/"
       /\ IsNonSpace(text[s + 3])
    THEN TailEnd(text, s + 3)
    ELSE 0

\* Mutation of URI_PATTERN: the sigil must start the text or follow
\* whitespace
PatternAfterWhitespace(text, i) ==
    IF i > Len(text) \/ text[i] # "@" THEN 0
    ELSE IF i > 1 /\ ~IsWhitespace(text[i - 1]) THEN 0
    ELSE PatternAfterScheme(text, i, SchemeEnd(text, i + 1))

\* URI_PATTERN = /@[\w-]+:\/\/(?!\/)[^\s]+/ tried at index i (1-based):
\* the index just past the match, or 0 when the pattern does not match there.
URI_PATTERN(text, i) ==
    IF i > Len(text) \/ text[i] # "@" THEN 0
    ELSE PatternAfterScheme(text, i, SchemeEnd(text, i + 1))

\* text.matchAll(new RegExp(URI_PATTERN.source, "g")) from lastIndex i - 1:
\* leftmost match first, the search resuming where the previous match ended.
\* A match is [index |-> 0-based offset, text |-> match[0]].
RECURSIVE MatchFrom(_, _)
\* Mutation of MatchStep: the search resumes one character further, not
\* where the match ended
MatchStepOverlapping(text, i, e) ==
    IF e = 0 THEN MatchFrom(text, i + 1)
    ELSE <<[index |-> i - 1, text |-> SubSeq(text, i, e - 1)]>>
           \o MatchFrom(text, i + 1)

\* one step of the scan, e being the result of the pattern tried at i
MatchStep(text, i, e) ==
    IF e = 0 THEN MatchFrom(text, i + 1)
    ELSE <<[index |-> i - 1, text |-> SubSeq(text, i, e - 1)]>>
           \o MatchFrom(text, e)

MatchFrom(text, i) ==
    IF i > Len(text) THEN <<>> ELSE MatchStep(text, i, URI_PATTERN(text, i))

matchAllURIs(text) == MatchFrom(text, 1)

\* match[0].slice(1): the identifier, the matched text without the sigil
Uri(match) == Tail(match.text)

\* doc.sliceString(from, to)
sliceString(doc, from, to) == SubSeq(doc, from + 1, to)

\* the largest element of a non-empty set of numbers
Max(S) == CHOOSE i \in S : \A j \in S : j <= i

\* the smallest element of a non-empty set of numbers
Min(S) == CHOOSE i \in S : \A j \in S : i <= j

\* the line whose breaks before and after offset pos are at the given indexes
LineBetween(doc, before, after) ==
    [from |-> IF before = {} THEN 0 ELSE Max(before),
     to   |-> IF after = {} THEN Len(doc) ELSE Min(after) - 1]

\* doc.lineAt(pos): the line holding offset pos, [from, to) without its break
lineAt(doc, pos) ==
    LineBetween(doc, {i \in 1..pos : doc[i] = "\n"},
                     {i \in (pos + 1)..Len(doc) : doc[i] = "\n"})

\* ------------------------------------------------------------ editor state

\* state: the EditorState, [doc, selection, resources, prompts]; the two
\*        fields hold references to Map objects.
\* heap:  the Map objects reachable from state and from tr.startState,
\*        reference |-> entries.
\* tr:    the transaction last handed to the filter (it carries startState).
\* out:   what resourceInputFilter returned for tr.
\* lastWrite: history variable, per store the entry of the last merge effect
\*        that contained each identifier.
\* batched: history variable, whether some transaction carried more than one
\*        merge effect for the same store.
\* view:  the EditorView's viewport and what the two decoration plugins of
\*        the repository hold for it.
\* editsLeft, mergesLeft: transactions the session may still dispatch.
VARIABLES state, heap, tr, out, view, completion, client, apply, host,
          lastWrite, batched, editsLeft, mergesLeft, callsLeft

vars == <<state, heap, tr, out, view, completion, client, apply, host,
          lastWrite, batched, editsLeft, mergesLeft, callsLeft>>

\* new Map(): no entries
EmptyMap == [k \in {} |-> k]

\* selection: undefined in a transaction spec
NoSelection == [anchor |-> 0 - 1, head |-> 0 - 1]

\* the annotation Transaction.userEvent, split at its dots; <<>> when absent
NoUserEvent == <<>>

cursor(pos) == [anchor |-> pos, head |-> pos]

\* SelectionRange.empty
empty(sel) == sel.anchor = sel.head

selFrom(sel) == IF sel.anchor <= sel.head THEN sel.anchor ELSE sel.head

selTo(sel) == IF sel.anchor <= sel.head THEN sel.head ELSE sel.anchor

\* state.field(resourcesField)
resourcesOf(h, st) == h[st.resources]

\* state.field(promptsField)
promptsOf(h, st) == h[st.prompts]

\* Mutation of has: every identifier counts as being in the store
hasAnything(map, key) == TRUE

\* resources.has(uri)
has(map, key) == key \in DOMAIN map

\* what the lookups return when they find nothing (null)
NoResource == [from |-> 0 - 1, to |-> 0 - 1, uri |-> <<>>]

\* the span of a match found in a slice that starts at offset base
SpanOf(base, match) ==
    [from |-> base + match.index,
     to   |-> base + match.index + Len(match.text),
     uri  |-> Uri(match)]

\* the spans { from, to, uri } of the matches of a slice starting at base
SpansOf(matches, base) ==
    [i \in 1..Len(matches) |-> SpanOf(base, matches[i])]

\* Array.from(matchAllURIs(text)), as spans
SpansIn(text, base) == SpansOf(matchAllURIs(text), base)

\* the spans of the matches of a line
SpansOfLine(doc, line) ==
    SpansIn(sliceString(doc, line.from, line.to), line.from)

\* the spans of the matches of the line that holds offset pos
LineSpans(doc, pos) == SpansOfLine(doc, lineAt(doc, pos))

\* the first of the spans whose index is in hits, or null
FirstSpan(spans, hits) == IF hits = {} THEN NoResource ELSE spans[Min(hits)]

\* the last of the spans whose index is in hits, or null
LastSpan(spans, hits) == IF hits = {} THEN NoResource ELSE spans[Max(hits)]

\* the loop of getResourceAtCursor: the first match that ends exactly at
\* the cursor position and whose resource exists
ResourceEndingAt(spans, resources, pos) ==
    FirstSpan(spans, {i \in 1..Len(spans) :
                        pos = spans[i].to /\ has(resources, spans[i].uri)})

\* Mutation of getResourceAtCursor: the lookup finds nothing
getNothingAtCursor(h, st, pos) == NoResource

\* Check if cursor is at the end of a resource (the whole line is searched)
getResourceAtCursor(h, st, pos) ==
    ResourceEndingAt(LineSpans(st.doc, pos), resourcesOf(h, st), pos)

\* the checks of getResourceAfterCursor on the matches of the text after
\* the cursor: the first match must start at the cursor and exist
ResourceStartingAt(spans, resources, pos) ==
    IF Len(spans) = 0 THEN NoResource
    ELSE IF spans[1].from # pos THEN NoResource
    ELSE IF has(resources, spans[1].uri) THEN spans[1]
    ELSE NoResource

\* Mutation of getResourceAfterCursor: the lookup finds nothing
getNothingAfterCursor(h, st, pos) == NoResource

\* Check if cursor is at the beginning of a resource (the text from the
\* cursor to the end of the line is searched)
getResourceAfterCursor(h, st, pos) ==
    ResourceStartingAt(
        SpansIn(sliceString(st.doc, pos, lineAt(st.doc, pos).to), pos),
        resourcesOf(h, st), pos)

\* the loop of getResourceAtPosition: the first existing resource that
\* strictly contains the cursor position
ResourceContaining(spans, resources, pos) ==
    FirstSpan(spans, {i \in 1..Len(spans) :
                        /\ pos > spans[i].from
                        /\ pos < spans[i].to
                        /\ has(resources, spans[i].uri)})

\* Get all resources in the line and find which one contains the cursor
getResourceAtPosition(h, st, pos) ==
    ResourceContaining(LineSpans(st.doc, pos), resourcesOf(h, st), pos)

\* what the boundary lookups return when they find nothing (null)
NoBoundary == 0 - 1

\* bestBoundary for the last existing resource r that ends at or before pos
BoundaryLeftOf(r, pos) ==
    IF r = NoResource THEN NoBoundary
    ELSE IF pos > r.to THEN r.to ELSE r.from

\* the loop of getResourceBoundaryLeft: every existing resource that ends
\* at or before the cursor overwrites bestBoundary, so the last one decides
LastResourceBefore(spans, resources, pos) ==
    LastSpan(spans, {i \in 1..Len(spans) :
                       has(resources, spans[i].uri) /\ spans[i].to <= pos})

\* Find the next resource boundary when moving left (the line up to the
\* cursor is searched)
getResourceBoundaryLeft(h, st, pos) ==
    BoundaryLeftOf(
        LastResourceBefore(
            SpansIn(sliceString(st.doc, lineAt(st.doc, pos).from, pos),
                    lineAt(st.doc, pos).from),
            resourcesOf(h, st), pos),
        pos)

\* the return of getResourceBoundaryRight for the first existing resource r
\* that starts at or after pos
BoundaryRightOf(r, pos) ==
    IF r = NoResource THEN NoBoundary
    ELSE IF pos < r.from THEN r.from ELSE r.to

\* the loop of getResourceBoundaryRight: it returns at the first existing
\* resource that starts at or after the cursor
FirstResourceAfter(spans, resources, pos) ==
    FirstSpan(spans, {i \in 1..Len(spans) :
                        has(resources, spans[i].uri) /\ spans[i].from >= pos})

\* Find the next resource boundary when moving right
getResourceBoundaryRight(h, st, pos) ==
    BoundaryRightOf(
        FirstResourceAfter(LineSpans(st.doc, pos), resourcesOf(h, st), pos),
        pos)

\* ------------------------------------------------------- transaction filter

\* userEvent.startsWith("input")
StartsWithInput(userEvent) == Len(userEvent) > 0 /\ userEvent[1] = "input"

\* /^\s+$/.test(insertedText)
IsAllWhitespace(text) ==
    Len(text) > 0 /\ \A i \in 1..Len(text) : IsWhitespace(text[i])

\* tr.changes.empty
ChangesEmpty(changes) == Len(changes) = 0

\* The transaction as the filter received it, as a transaction spec
SpecOf(t) ==
    [userEvent      |-> t.userEvent,
     changes        |-> t.changes,
     selection      |-> t.selection,
     effects        |-> t.effects,
     scrollIntoView |-> t.scrollIntoView]

\* the character tests written as !== " ", "\n", "\t"
IsBlank(c) == c \in {" ", "\n", "\t"}

\* needsSpaceBefore after the loop over the matches of the line: inserting
\* directly before an existing resource, with a non-blank character before
needsSpaceBefore(spans, resources, doc, insertPos) ==
    \E i \in 1..Len(spans) :
       /\ has(resources, spans[i].uri)
       /\ insertPos = spans[i].from
       /\ insertPos > 0
       /\ ~IsBlank(doc[insertPos])

\* needsSpaceAfter after the loop: inserting directly after an existing
\* resource, with no character or a non-blank character after
needsSpaceAfter(spans, resources, doc, insertPos) ==
    \E i \in 1..Len(spans) :
       /\ has(resources, spans[i].uri)
       /\ insertPos = spans[i].to
       /\ (insertPos >= Len(doc) \/ ~IsBlank(doc[insertPos + 1]))

\* "Build the final insertion text": one space in front per flag
WithSpaces(insertedText, spaceBefore, spaceAfter) ==
    (IF spaceAfter THEN <<" ">> ELSE <<>>)
      \o (IF spaceBefore THEN <<" ">> ELSE <<>>)
      \o insertedText

\* finalText of one change, given the matches of the line it inserts into
FinalTextIn(spans, resources, doc, change) ==
    WithSpaces(change.insert,
               needsSpaceBefore(spans, resources, doc, change.from),
               needsSpaceAfter(spans, resources, doc, change.from))

\* The body of the iterChanges callback: the text finally inserted
finalText(h, st, change) ==
    IF IsAllWhitespace(change.insert) THEN change.insert
    ELSE FinalTextIn(LineSpans(st.doc, change.from), resourcesOf(h, st),
                     st.doc, change)

\* newChanges after iterChanges
newChanges(h, st, changes) ==
    [i \in 1..Len(changes) |->
        [from   |-> changes[i].from,
         to     |-> changes[i].to,
         insert |-> finalText(h, st, changes[i])]]

\* cursorAdjustment after iterChanges: one per space added
RECURSIVE cursorAdjustment(_, _)
cursorAdjustment(changes, new) ==
    IF Len(changes) = 0 THEN 0
    ELSE Len(Head(new).insert) - Len(Head(changes).insert)
           + cursorAdjustment(Tail(changes), Tail(new))

\* newSelection of the insertion rule
AdjustedSelection(selection, adj) ==
    IF selection = NoSelection THEN NoSelection
    ELSE [anchor |-> selection.anchor + adj, head |-> selection.head + adj]

\* The replacement built by the insertion rule
InsertionSpec(t, new) ==
    [userEvent      |-> NoUserEvent,
     changes        |-> new,
     selection      |-> AdjustedSelection(t.selection,
                                          cursorAdjustment(t.changes, new)),
     effects        |-> <<>>,
     scrollIntoView |-> t.scrollIntoView]

\* The replacement built by the deletion rule: the whole resource goes
DeletionSpec(resource) ==
    [userEvent      |-> NoUserEvent,
     changes        |-> <<[from |-> resource.from, to |-> resource.to,
                           insert |-> <<>>]>>,
     selection      |-> cursor(resource.from),
     effects        |-> <<>>,
     scrollIntoView |-> TRUE]

\* The replacement built by the cursor-movement rule: a selection only
MovementSpec(target) ==
    [userEvent      |-> NoUserEvent,
     changes        |-> <<>>,
     selection      |-> cursor(target),
     effects        |-> <<>>,
     scrollIntoView |-> TRUE]

\* targetPos, currentResource being getResourceAtPosition(startState, oldPos)
TargetFrom(h, st, oldPos, newPos, currentResource) ==
    IF newPos < oldPos
    THEN IF currentResource # NoResource /\ oldPos > currentResource.from
         THEN currentResource.from
         ELSE getResourceBoundaryLeft(h, st, oldPos)
    ELSE IF newPos > oldPos
    THEN IF currentResource # NoResource /\ oldPos < currentResource.to
         THEN currentResource.to
         ELSE getResourceBoundaryRight(h, st, oldPos)
    ELSE NoBoundary

\* targetPos of the cursor-movement rule
targetPos(h, st, oldPos, newPos) ==
    TargetFrom(h, st, oldPos, newPos, getResourceAtPosition(h, st, oldPos))

\* "If we found a target position, override the cursor movement"
MovementResult(t, target) ==
    IF target # NoBoundary /\ target # t.selection.head
    THEN MovementSpec(target)
    ELSE SpecOf(t)

\* The cursor-movement rule and the final return tr
FilterMovement(h, t) ==
    IF /\ t.selection # NoSelection
       /\ empty(t.selection)
       /\ empty(t.startState.selection)
       /\ ~StartsWithInput(t.userEvent)
    THEN MovementResult(t, targetPos(h, t.startState,
                                     t.startState.selection.head,
                                     t.selection.head))
    ELSE SpecOf(t)

\* if (!resource) return tr; else the whole resource is replaced by nothing
DeletionResult(t, resource) ==
    IF resource = NoResource THEN SpecOf(t) ELSE DeletionSpec(resource)

\* The deletion rule, then what follows it
FilterDeletion(h, t) ==
    IF t.userEvent = <<"delete", "backward">>
    THEN DeletionResult(t, getResourceAtCursor(h, t.startState,
                                               t.startState.selection.head))
    ELSE IF t.userEvent = <<"delete", "forward">>
    THEN DeletionResult(t, getResourceAfterCursor(h, t.startState,
                                                  t.startState.selection.head))
    ELSE FilterMovement(h, t)

\* if (modifiedChanges) return the insertion spec; else go on
InsertionResult(h, t, new) ==
    IF new # t.changes THEN InsertionSpec(t, new) ELSE FilterDeletion(h, t)

\* Mutation of resourceInputFilter: no early return for a range selection
filterIgnoringRange(h, t) ==
    IF t.userEvent = NoUserEvent THEN SpecOf(t)
    ELSE IF StartsWithInput(t.userEvent) /\ ChangesEmpty(t.changes)
    THEN SpecOf(t)
    ELSE InsertionResult(h, t,
            IF StartsWithInput(t.userEvent)
            THEN newChanges(h, t.startState, t.changes)
            ELSE t.changes)

\* Mutation of resourceInputFilter: no early return for a missing user event
filterIgnoringUserEvent(h, t) ==
    IF ~empty(t.startState.selection) THEN SpecOf(t)
    ELSE IF StartsWithInput(t.userEvent) /\ ChangesEmpty(t.changes)
    THEN SpecOf(t)
    ELSE InsertionResult(h, t,
            IF StartsWithInput(t.userEvent)
            THEN newChanges(h, t.startState, t.changes)
            ELSE t.changes)

\* EditorState.transactionFilter.of((tr) => ...): what the filter returns
resourceInputFilter(h, t) ==
    IF t.userEvent = NoUserEvent THEN SpecOf(t)
    ELSE IF ~empty(t.startState.selection) THEN SpecOf(t)
    ELSE IF StartsWithInput(t.userEvent) /\ ChangesEmpty(t.changes)
    THEN SpecOf(t)
    ELSE InsertionResult(h, t,
            IF StartsWithInput(t.userEvent)
            THEN newChanges(h, t.startState, t.changes)
            ELSE t.changes)

\* ------------------------------------------------------------ state fields

\* Mutation of MergeInto: an entry already in the store is kept
MergeKeepingOld(oldMap, value) ==
    [k \in DOMAIN oldMap \cup DOMAIN value |->
        IF k \in DOMAIN oldMap THEN oldMap[k] ELSE value[k]]

\* Mutation of MergeInto: the effect's entries replace the store
ReplaceBy(oldMap, value) == value

\* new Map(oldMap) followed by set(key, entry) for every entry of value
MergeInto(oldMap, value) ==
    [k \in DOMAIN oldMap \cup DOMAIN value |->
        IF k \in DOMAIN value THEN value[k] ELSE oldMap[k]]

\* the effects of a transaction that are of the given type (e.is(type))
EffectsOf(effects, type) == {i \in 1..Len(effects) : effects[i].type = type}

\* a reference no live object has: what new Map() returns
FreshRef(h) == CHOOSE r \in 1..(Cardinality(DOMAIN h) + 1) : r \notin DOMAIN h

\* the heap once a new object with the given entries is allocated
Allocate(h, newRef, entries) ==
    [r \in DOMAIN h \cup {newRef} |-> IF r = newRef THEN entries ELSE h[r]]

\* Mutation of MergedField: the entries are set on the old Map object, which
\* is returned
MergedInPlace(h, ref, e, newRef) ==
    [ref |-> ref, heap |-> [h EXCEPT ![ref] = MergeInto(@, e.value)]]

\* "merge resources": the value returned for a merge effect e, a new Map
\* that holds the old entries overwritten by the effect's; the old Map
\* object is left as it was
MergedField(h, ref, e, newRef) ==
    [ref |-> newRef, heap |-> Allocate(h, newRef, MergeInto(h[ref], e.value))]

\* StateField update of a store: the loop over tr.effects returns at the
\* first effect of its type (mine holds the indexes of such effects);
\* without one the old Map object is returned.  The result is the field's
\* new reference and the heap after the update.
FieldUpdate(h, ref, effects, mine) ==
    IF mine = {} THEN [ref |-> ref, heap |-> h]
    ELSE MergedField(h, ref, effects[Min(mine)], FreshRef(h))

\* resourcesField.update(oldResources, tr)
resourcesFieldUpdate(h, ref, effects) ==
    FieldUpdate(h, ref, effects, EffectsOf(effects, "updateResources"))

\* Mutation of promptsFieldUpdate: the prompt store takes any merge effect
promptsFieldOnAnyMerge(h, ref, effects) ==
    FieldUpdate(h, ref, effects, 1..Len(effects))

\* promptsField.update(oldPrompts, tr)
promptsFieldUpdate(h, ref, effects) ==
    FieldUpdate(h, ref, effects, EffectsOf(effects, "updatePrompts"))

\* ------------------------------------------------- applying a transaction

\* one change applied to the text
ApplyChange(doc, c) ==
    SubSeq(doc, 1, c.from) \o c.insert \o SubSeq(doc, c.to + 1, Len(doc))

\* tr.newDoc: the changes (ascending, in start-document offsets) applied,
\* the last one first
RECURSIVE ApplyChanges(_, _)
ApplyChanges(doc, changes) ==
    IF Len(changes) = 0 THEN doc
    ELSE ApplyChanges(ApplyChange(doc, changes[Len(changes)]),
                      SubSeq(changes, 1, Len(changes) - 1))

\* ChangeSet.mapPos(pos, assoc), delta being the shift of earlier changes
RECURSIVE MapPos(_, _, _, _)
\* mapPos at one change c
MapPosAt(c, rest, pos, assoc, delta) ==
    IF pos < c.from THEN pos + delta
    ELSE IF c.to > pos
    THEN IF pos = c.from \/ assoc < 0 THEN c.from + delta
         ELSE c.from + delta + Len(c.insert)
    ELSE IF c.to = pos /\ assoc < 0 /\ c.from = c.to
    THEN c.from + delta
    ELSE MapPos(rest, pos, assoc, delta + Len(c.insert) - (c.to - c.from))

MapPos(changes, pos, assoc, delta) ==
    IF Len(changes) = 0 THEN pos + delta
    ELSE MapPosAt(Head(changes), Tail(changes), pos, assoc, delta)

\* a range with its ends mapped, keeping its direction
MappedRange(sel, from, to) ==
    IF sel.anchor <= sel.head THEN [anchor |-> from, head |-> to]
    ELSE [anchor |-> to, head |-> from]

\* startState.selection.map(tr.changes): the selection of a transaction
\* whose spec gives none
MapSelection(sel, changes) ==
    IF empty(sel) THEN cursor(MapPos(changes, sel.head, 0 - 1, 0))
    ELSE MappedRange(sel, MapPos(changes, selFrom(sel), 1, 0),
                          MapPos(changes, selTo(sel), 0 - 1, 0))

\* tr.newSelection
NewSelection(st, spec) ==
    IF spec.selection = NoSelection THEN MapSelection(st.selection, spec.changes)
    ELSE spec.selection

\* ------------------------------------------------------------- decorations

\* Decoration.replace({widget}).range(start, start + match[0].length) for
\* one match: a ResourceWidget when resources.get(uri) gives a resource, a
\* NotFoundResourceWidget otherwise
DecorationOf(span, resources) ==
    [from   |-> span.from,
     to     |-> span.to,
     widget |-> IF span.uri \in DOMAIN resources THEN "ResourceWidget"
                ELSE "NotFoundResourceWidget",
     uri    |-> span.uri]

\* Mutation of DecorationsOf: the loop over the matches stops after the first
FirstDecorationOnly(spans, resources) ==
    [i \in 1..Min({1, Len(spans)}) |-> DecorationOf(spans[i], resources)]

\* the loop over the matches of a visible range: one decoration per match
DecorationsOf(spans, resources) ==
    [i \in 1..Len(spans) |-> DecorationOf(spans[i], resources)]

\* Create decorations from resources (src/resources/decoration.ts): the
\* visible text is matched and every match is decorated
createResourceDecorations(h, st, viewport) ==
    DecorationsOf(SpansIn(sliceString(st.doc, viewport.from, viewport.to),
                          viewport.from),
                  resourcesOf(h, st))

\* Mutation of KnownDecorationsOf: unknown identifiers are decorated too
DecoratingUnknownToo(spans, resources) ==
    [i \in 1..Len(spans) |-> DecorationOf(spans[i], resources)]

\* the loop over the matches in src/decoration.ts: a decoration is pushed
\* only if (resource)
RECURSIVE KnownDecorationsOf(_, _)
KnownDecorationsOf(spans, resources) ==
    IF Len(spans) = 0 THEN <<>>
    ELSE (IF has(resources, Head(spans).uri)
          THEN <<DecorationOf(Head(spans), resources)>>
          ELSE <<>>)
           \o KnownDecorationsOf(Tail(spans), resources)

\* Create decorations from resources (src/decoration.ts and
\* src/resources/hover.ts): only matches found in the store are decorated
createKnownResourceDecorations(h, st, viewport) ==
    KnownDecorationsOf(SpansIn(sliceString(st.doc, viewport.from, viewport.to),
                               viewport.from),
                       resourcesOf(h, st))

\* constructor(view): both plugins compute their decorations
PluginCreate(h, st, viewport) ==
    [viewport    |-> viewport,
     decorations |-> createResourceDecorations(h, st, viewport),
     known       |-> createKnownResourceDecorations(h, st, viewport),
     recomputed  |-> TRUE]

\* Mutation of resourceDecorationsUpdate: a merge effect is no trigger
updateOnDocOrViewport(v, h, st, viewport, docChanged, effects) ==
    IF docChanged \/ viewport # v.viewport
    THEN PluginCreate(h, st, viewport)
    ELSE [v EXCEPT !.recomputed = FALSE]

\* update(update: ViewUpdate), the same in both plugins: the decorations
\* are computed again if the document or the viewport changed or a
\* transaction of the update carries an updateResources effect
resourceDecorationsUpdate(v, h, st, viewport, docChanged, effects) ==
    IF \/ docChanged
       \/ viewport # v.viewport
       \/ EffectsOf(effects, "updateResources") # {}
    THEN PluginCreate(h, st, viewport)
    ELSE [v EXCEPT !.recomputed = FALSE]

\* ------------------------------------------------------- the widgets' DOM

\* what view.state.field(mcpOptionsField, false) gives toDOM: <<>> when the
\* field is not installed (undefined), else <<handlers>>, the set of the
\* resource handlers the options carry
ResourceHandlers == {"onResourceClick", "onResourceMouseOver", "onResourceMouseOut"}

NoHandlers == <<{}>>

\* mcpOptions?.onResourceClick and its like: is the handler there
handler(mcpOptions, name) == Len(mcpOptions) > 0 /\ name \in mcpOptions[1]

\* the handler a listener for the DOM event calls
HandlerOf(event) ==
    CASE event = "click"     -> "onResourceClick"
      [] event = "mouseover" -> "onResourceMouseOver"
      [] event = "mouseout"  -> "onResourceMouseOut"

\* uri.split("://")[1] ?? uri: the piece between the first separator and
\* the next, the whole string when there is no separator
guessName(uri) ==
    LET seps == {i \in 1..(Len(uri) - 2) : SubSeq(uri, i, i + 2) = <<":", "/", "/">>}
        next == {i \in seps : i >= Min(seps) + 3}
    IN  IF seps = {} THEN uri
        ELSE SubSeq(uri, Min(seps) + 3,
                    IF next = {} THEN Len(uri) ELSE Min(next) - 1)

\* Mutation of toDOM: the click affordance is added without looking the
\* handler up
toDOMClickable(decoration, resources, mcpOptions) ==
    IF decoration.widget = "ResourceWidget"
    THEN [className   |-> "cm-resource-widget",
          textContent |-> <<"@", resources[decoration.uri].name>>,
          cursor      |-> "pointer",
          listeners   |-> {"click"} \cup
                            {e \in {"mouseover", "mouseout"} :
                               handler(mcpOptions, HandlerOf(e))},
          resource    |-> <<resources[decoration.uri]>>]
    ELSE [className   |-> "cm-not-found-resource-widget",
          textContent |-> <<"@">> \o guessName(decoration.uri),
          cursor      |-> "",
          listeners   |-> {},
          resource    |-> <<>>]

\* ResourceWidget.toDOM and NotFoundResourceWidget.toDOM: the span drawn
\* for a decoration made while the store was `resources`. The resolved
\* widget shows the name of its resource and gets a pointer cursor and a
\* listener for click only if onResourceClick is there, listeners for
\* mouseover and mouseout only if their handlers are there; each listener
\* hands its handler this.resource
toDOM(decoration, resources, mcpOptions) ==
    IF decoration.widget = "ResourceWidget"
    THEN [className   |-> "cm-resource-widget",
          textContent |-> <<"@", resources[decoration.uri].name>>,
          cursor      |-> IF handler(mcpOptions, "onResourceClick")
                          THEN "pointer" ELSE "",
          listeners   |-> {e \in {"click", "mouseover", "mouseout"} :
                             handler(mcpOptions, HandlerOf(e))},
          resource    |-> <<resources[decoration.uri]>>]
    ELSE [className   |-> "cm-not-found-resource-widget",
          textContent |-> <<"@">> \o guessName(decoration.uri),
          cursor      |-> "",
          listeners   |-> {},
          resource    |-> <<>>]

\* WidgetType.compare: widgets of the same class for which eq(other) holds,
\* and both classes compare the identifier alone
eq(decoration, other) ==
    decoration.widget = other.widget /\ decoration.uri = other.uri

\* a view nothing is drawn in yet
NoView == [decorations |-> <<>>, dom |-> <<>>]

\* The editor draws the decorations of the plugin after an update: where
\* the old decoration set has, at the position mapped through the changes,
\* a widget that compares equal to the new one, the element already drawn
\* is kept and toDOM is not called; every other widget is drawn with toDOM
Draw(old, plugin, changes, resources, mcpOptions) ==
    [dom |->
       [i \in 1..Len(plugin.decorations) |->
          LET kept == {j \in 1..Len(old.decorations) :
                         /\ eq(plugin.decorations[i], old.decorations[j])
                         /\ MapPos(changes, old.decorations[j].from, 1, 0)
                              = plugin.decorations[i].from}
          IN  IF kept # {} THEN old.dom[Min(kept)]
              ELSE toDOM(plugin.decorations[i], resources, mcpOptions)]]
      @@ plugin

\* new EditorView({state}): the plugins are created and their decorations
\* drawn for the first time
EditorView(h, st, viewport, mcpOptions) ==
    Draw(NoView, PluginCreate(h, st, viewport), <<>>, resourcesOf(h, st),
         mcpOptions)

\* the viewport of a document that is shown whole
FullViewport(doc) == [from |-> 0, to |-> Len(doc)]

\* the lines of a document
Lines(doc) == {lineAt(doc, pos) : pos \in 0..Len(doc)}

\* the ranges that start with one of the lines and end with one
LineRanges(lines) ==
    {vp \in {[from |-> a.from, to |-> b.to] : a \in lines, b \in lines} :
        vp.from <= vp.to}

\* the viewports a document can be shown through: whole lines
Viewports(doc) == LineRanges(Lines(doc))

\* the viewport after a transaction: its ends mapped through the changes,
\* on whole lines of the new document
ViewportAfter(viewport, changes, doc) ==
    [from |-> lineAt(doc, MapPos(changes, viewport.from, 0 - 1, 0)).from,
     to   |-> lineAt(doc, MapPos(changes, viewport.to, 1, 0)).to]

\* The Map objects a state holds
LiveRefs(st) == {st.resources, st.prompts}

\* the heap without the objects only an earlier transaction held
LiveHeap(h, st) == [r \in LiveRefs(st) |-> h[r]]

\* history: the record of a store once one more merge is written: the keys
\* of the merge hold its entries, every other key holds what it held
LastWriteWins(record, value) ==
    [k \in DOMAIN record \cup DOMAIN value |->
        IF k \notin DOMAIN value THEN record[k] ELSE value[k]]

\* history: every merge effect of the applied transaction, in order, folded
\* into the last-write record of its store
RECURSIVE FoldWrites(_, _)
FoldWrites(writes, effects) ==
    IF Len(effects) = 0 THEN writes
    ELSE FoldWrites([writes EXCEPT ![Head(effects).type] =
                        LastWriteWins(@, Head(effects).value)],
                    Tail(effects))

\* whether a transaction carries two merge effects for the same store
IsBatched(effects) ==
    \/ Cardinality(EffectsOf(effects, "updateResources")) > 1
    \/ Cardinality(EffectsOf(effects, "updatePrompts")) > 1

\* a transaction spec resolved against the current state
Transaction(spec) ==
    [startState     |-> state,
     userEvent      |-> spec.userEvent,
     changes        |-> spec.changes,
     selection      |-> spec.selection,
     effects        |-> spec.effects,
     scrollIntoView |-> spec.scrollIntoView]

\* the state a transaction produces: new document and selection, and the
\* two fields as updated (res, then pro on the heap res leaves); the view
\* then updates its plugins
Commit(t, f, res, pro) ==
    /\ tr' = t
    /\ out' = f
    /\ state' = [doc       |-> ApplyChanges(t.startState.doc, f.changes),
                 selection |-> NewSelection(t.startState, f),
                 resources |-> res.ref,
                 prompts   |-> pro.ref]
    /\ heap' = pro.heap
    /\ view' = Draw(view,
                    resourceDecorationsUpdate(
                       view, heap', state',
                       ViewportAfter(view.viewport, f.changes, state'.doc),
                       ~ChangesEmpty(f.changes), f.effects),
                    f.changes, resourcesOf(heap', state'), host.mcpOptions)
    /\ lastWrite' = FoldWrites(lastWrite, f.effects)
    /\ batched' = (batched \/ IsBatched(f.effects))

\* the prompts field is updated after the resources field
CommitFields(t, f, res) ==
    Commit(t, f, res, promptsFieldUpdate(res.heap, t.startState.prompts, f.effects))

\* the filtered transaction f is applied: the fields are updated
Apply(h, t, f) ==
    CommitFields(t, f, resourcesFieldUpdate(h, t.startState.resources, f.effects))

\* the transaction goes through the transaction filter
Filter(h, t) == Apply(h, t, resourceInputFilter(h, t))

\* state.update(spec): the spec is resolved against the current state, the
\* filter may replace it, and the resulting transaction is applied to the
\* document, the selection and the two store fields.
Dispatch(spec) == Filter(LiveHeap(heap, state), Transaction(spec))

\* ----------------------------------------------------------------- inputs

\* identifiers the provider may list: the token's, and a longer one
ResourceKeys == {Tail(Token), Tail(Token) \o <<"x">>}

\* prompt names the provider may list; the name equals a resource identifier
PromptNames == {Tail(Token)}

ResourceNames == {"n1", "n2"}

PromptDescriptions == {"d1", "d2"}

\* the names of the prompts a server lists: one that is also the identifier
\* of a resource, and one that is not
ListedPromptNames == PromptNames \cup {<<"p">>}

\* the Map of an updateResources effect: one listed resource
ResourceBatches ==
    {[k \in {key} |-> [uri |-> k, name |-> n]] :
        key \in ResourceKeys, n \in ResourceNames}

\* the Map of an updatePrompts effect: one listed prompt
PromptBatches ==
    {[k \in {key} |-> [name |-> k, description |-> d]] :
        key \in PromptNames, d \in PromptDescriptions}

\* updateResources.of(map), updatePrompts.of(map)
Effects ==
    {[type |-> "updateResources", value |-> m] : m \in ResourceBatches}
      \cup {[type |-> "updatePrompts", value |-> m] : m \in PromptBatches}

\* the effects of one dispatch: one effect, or two in a given order
EffectLists == {<<e>> : e \in Effects} \cup (Effects \X Effects)

\* the strings the pattern's tests accept
ValidURIs ==
    {<<"@", "g", "i", "t", "h", "u", "b", ":", "/", "/", "r", "e", "p", "o">>,
     <<"@", "g", "i", "t", "h", "u", "b", ":", "/", "/", "r", "e", "p", "o", "/">>,
     <<"@", "g", "i", "t", "h", "u", "b", ":", "/", "/", "r", "e", "p", "o", "/", "s", "u", "b">>,
     <<"@", "g", "i", "t", "h", "u", "b", ":", "/", "/", "r", "e", "p", "o", "?", "q", "=", "1">>,
     <<"@", "g", "i", "t", "h", "u", "b", ":", "/", "/", "r", "e", "p", "o", "#", "1">>}

\* the strings the pattern's tests reject
InvalidURIs ==
    {<<"@">>,
     <<"g", "i", "t", "h", "u", "b", ":", "/", "/", "r", "e", "p", "o">>,
     <<"@", "g", "i", "t", "h", "u", "b", ":", "/", "r", "e", "p", "o">>,
     <<"@", "g", "i", "t", "h", "u", "b", ":", "/", "/", "/", "r", "e", "p", "o">>,
     <<"@", "g", "i", "t", "h", "u", "b", ":", "r", "e", "p", "o">>,
     <<"@", ":", "/", "/", "r", "e", "p", "o">>,
     <<"@", "g", "i", "t", "h", "u", "b", ":", "/", "/">>,
     <<"@", "g", "i", "t", " ", "h", "u", "b", ":", "/", "/", "r", "e", "p", "o">>}

\* the characters of the generated texts: the sigil, a word character, the
\* separator's characters and a space
TextChars == {"@", "a", ":", "/", " "}

\* every text of at most n characters of the set chars
RECURSIVE CharTexts(_, _)
CharTexts(chars, n) ==
    IF n = 0 THEN {<<>>}
    ELSE LET shorter == CharTexts(chars, n - 1)
         IN  shorter \cup {t \o <<c>> : t \in shorter, c \in chars}

\* the texts the matcher is run on
MatchTexts == CharTexts(TextChars, MaxTextLen) \cup ValidURIs \cup InvalidURIs \cup Docs

\* selections of a document: every cursor, and the ranges that start at
\* either end of the document
Selections(doc) ==
    {cursor(p) : p \in 0..Len(doc)}
      \cup {[anchor |-> a, head |-> h] : a \in {0, Len(doc)}, h \in 0..Len(doc)}

\* stores a session can have built before the transaction under test
Stores ==
    {[k \in keys |-> [uri |-> k, name |-> "n1"]] : keys \in SUBSET ResourceKeys}

\* text typed in one keystroke
TypedTexts == {<<"x">>, <<" ">>}

\* a transaction spec that changes the document and sets the selection
EditSpec(userEvent, from, to, insert, selection, scroll) ==
    [userEvent      |-> userEvent,
     changes        |-> <<[from |-> from, to |-> to, insert |-> insert]>>,
     selection      |-> selection,
     effects        |-> <<>>,
     scrollIntoView |-> scroll]

\* a keystroke: the typed text replaces the selection
TypeSpecs(st) ==
    {EditSpec(<<"input", "type">>, selFrom(st.selection), selTo(st.selection),
              text, cursor(selFrom(st.selection) + Len(text)), TRUE) :
        text \in TypedTexts}

\* Backspace: the character before the cursor, or the selected range
BackspaceSpecs(st) ==
    {EditSpec(<<"delete", "backward">>, from, selTo(st.selection), <<>>,
              cursor(from), TRUE) :
        from \in IF ~empty(st.selection) THEN {selFrom(st.selection)}
                 ELSE IF st.selection.head > 0 THEN {st.selection.head - 1}
                 ELSE {}}

\* Delete: the character after the cursor, or the selected range
DeleteSpecs(st) ==
    {EditSpec(<<"delete", "forward">>, selFrom(st.selection), to, <<>>,
              cursor(selFrom(st.selection)), TRUE) :
        to \in IF ~empty(st.selection) THEN {selTo(st.selection)}
               ELSE IF st.selection.head < Len(st.doc)
               THEN {st.selection.head + 1}
               ELSE {}}

\* arrow key or click: the cursor goes to an offset
MoveSpecs(st) ==
    {[userEvent |-> <<"select">>, changes |-> <<>>, selection |-> cursor(pos),
      effects |-> <<>>, scrollIntoView |-> TRUE] :
        pos \in 0..Len(st.doc)}

\* undo of an earlier edit: a character comes back or goes, anywhere in the
\* document, and the cursor is put where the edit was
UndoSpecs(st) ==
    {EditSpec(<<"undo">>, pos, pos, <<"x">>, cursor(pos + 1), TRUE) :
        pos \in 0..Len(st.doc)}
      \cup {EditSpec(<<"undo">>, pos, pos + 1, <<>>, cursor(pos), TRUE) :
              pos \in 0..(Len(st.doc) - 1)}

\* what the host dispatches itself, without a user event: an insertion or
\* a deletion with no selection given, or a selection
HostSpecs(st) ==
    {EditSpec(NoUserEvent, pos, pos, <<"x">>, NoSelection, FALSE) :
        pos \in 0..Len(st.doc)}
      \cup {EditSpec(NoUserEvent, pos, pos + 1, <<>>, NoSelection, FALSE) :
              pos \in 0..(Len(st.doc) - 1)}
      \cup {[userEvent |-> NoUserEvent, changes |-> <<>>,
              selection |-> cursor(pos), effects |-> <<>>,
              scrollIntoView |-> FALSE] : pos \in 0..Len(st.doc)}

\* view.dispatch({ effects })
MergeSpecs ==
    {[userEvent |-> NoUserEvent, changes |-> <<>>, selection |-> NoSelection,
      effects |-> effects, scrollIntoView |-> FALSE] :
        effects \in EffectLists}

\* the transaction state.update({}) makes: what tr holds before any dispatch
EmptySpec ==
    [userEvent |-> NoUserEvent, changes |-> <<>>, selection |-> NoSelection,
     effects |-> <<>>, scrollIntoView |-> FALSE]

\* what the provider may answer to resources/list: up to MaxListed resources
ResourceListings ==
    UNION {[1..n -> {[uri |-> k, name |-> nm] :
                        k \in ResourceKeys, nm \in ResourceNames}] :
             n \in 0..MaxListed}

\* what the provider may answer to prompts/list: up to MaxListed prompts,
\* with or without arguments
PromptListings ==
    UNION {[1..n -> {[name |-> k, description |-> d, args |-> a] :
                        k \in ListedPromptNames, d \in PromptDescriptions,
                        a \in BOOLEAN}] :
             n \in 0..MaxListed}

\* the characters of the generated documents a completion is asked in: the
\* two sigils, a word character and a space
TriggerChars == {"@", "/", "a", " "}

\* the documents a completion is asked in: short texts of the sigils, a
\* word character and a space, "hello @", and two-line texts
TriggerDocs ==
    CharTexts(TriggerChars, MaxTriggerLen)
      \cup {<<"h", "e", "l", "l", "o", " ", "@">>}
      \cup {t \o <<"\n">> \o u : t \in CharTexts(TriggerChars, 1),
                                  u \in CharTexts(TriggerChars, 1)}

\* the records a server lists for the provider: identifiers with and
\* without a "://", description and MIME type given or not
McpResources ==
    {[uri |-> Tail(Token), name |-> "n1", description |-> "d1",
      mimeType |-> "m1"],
     [uri |-> <<"a", "b">>, name |-> "n2", description |-> "undefined",
      mimeType |-> "undefined"],
     [uri |-> <<>>, name |-> "n1", description |-> "d1",
      mimeType |-> "undefined"],
     [uri |-> <<":", "/", "/", "b">>, name |-> "n2",
      description |-> "undefined", mimeType |-> "m1"]}

\* what the server answers to the provider's resources/list: no record or
\* one
McpListings == {<<>>} \cup {<<r>> : r \in McpResources}

\* fromMCPResource(mcpResource, data); the type is
\* mcpResource.uri.split("://")[0] ?? "unknown", and split returns the whole
\* string as its only piece when the separator does not occur
fromMCPResource(mcpResource, data) ==
    [type |-> IF \E i \in 1..(Len(mcpResource.uri) - 2) :
                     SubSeq(mcpResource.uri, i, i + 2) = <<":", "/", "/">>
              THEN SubSeq(mcpResource.uri, 1,
                          Min({i \in 1..(Len(mcpResource.uri) - 2) :
                                 SubSeq(mcpResource.uri, i, i + 2)
                                    = <<":", "/", "/">>}) - 1)
              ELSE mcpResource.uri,
     uri |-> mcpResource.uri,
     name |-> mcpResource.name,
     description |-> mcpResource.description,
     mimeType |-> mcpResource.mimeType,
     data |-> data]

\* Mutation of toMCPResource: the description is left out
toMCPResourceUndescribed(resource) ==
    [uri |-> resource.uri, name |-> resource.name,
     description |-> "undefined", mimeType |-> resource.mimeType]

\* toMCPResource(resource)
toMCPResource(resource) ==
    [uri |-> resource.uri, name |-> resource.name,
     description |-> resource.description, mimeType |-> resource.mimeType]

\* Mutation of ConnectionAwaited: every call connects again
ConnectingAgain(c, i) ==
    [c EXCEPT !.connects = @ + 1, !.calls[i].pc = "done",
              !.calls[i].result = "true"]

\* Mutation of ConnectionAwaited: getResource does not look at the
\* connection
getResourceUnconnected(c, i) ==
    IF c.calls[i].method = "getResource"
    THEN [c EXCEPT !.calls[i].pc = "listing",
                   !.requests =
                      Append(@, [method |-> "resources/list", name |-> <<>>])]
    ELSE [c EXCEPT !.calls[i].pc = "done",
                   !.calls[i].result =
                      IF c.outcome = "connected" THEN "true"
                      ELSE "MCP client is not connected"]

\* call i of a provider method once connectedPromise has settled:
\* isConnected resolves to the outcome; getResources and getResource throw
\* when the connection failed and send resources/list otherwise
ConnectionAwaited(c, i) ==
    IF c.calls[i].method = "isConnected"
    THEN [c EXCEPT !.calls[i].pc = "done",
                   !.calls[i].result =
                      IF c.outcome = "connected" THEN "true" ELSE "false"]
    ELSE IF c.outcome # "connected"
    THEN [c EXCEPT !.calls[i].pc = "done",
                   !.calls[i].result = "MCP client is not connected"]
    ELSE [c EXCEPT !.calls[i].pc = "listing",
                   !.requests =
                      Append(@, [method |-> "resources/list", name |-> <<>>])]

\* call i once its resources/list is answered with the array listed:
\* getResources converts every record; getResource returns null when no
\* record has its uri, and reads the one that has
ListAnswered(c, i, listed) ==
    IF c.calls[i].method = "getResources"
    THEN [c EXCEPT !.calls[i].pc = "done", !.calls[i].result = "resources",
                   !.answered = listed,
                   !.returned = [j \in 1..Len(listed) |->
                                    fromMCPResource(listed[j], "")]]
    ELSE IF \A j \in 1..Len(listed) : listed[j].uri # c.calls[i].uri
    THEN [c EXCEPT !.calls[i].pc = "done", !.calls[i].result = "null"]
    ELSE [c EXCEPT !.calls[i].pc = "reading",
                   !.calls[i].found =
                      <<listed[Min({j \in 1..Len(listed) :
                                      listed[j].uri = c.calls[i].uri})]>>,
                   !.requests =
                      Append(@, [method |-> "resources/read",
                                 name |-> c.calls[i].uri])]

\* Mutation of extractResources: a token is returned whether or not its
\* identifier is in the store
extractResourcesUnresolved(text, resources) ==
    LET matches == matchAllURIs(text)
    IN  [k \in 1..Len(matches) |->
           [resource |-> IF Tail(matches[k].text) \in DOMAIN resources
                         THEN resources[Tail(matches[k].text)]
                         ELSE [uri |-> Tail(matches[k].text),
                               name |-> "undefined"],
            start |-> matches[k].index,
            end |-> matches[k].index + Len(matches[k].text)]]

\* extractResources(view) for the document text and the resources field of
\* view.state: the matches of the pattern over the whole text whose
\* identifier (the match without its '@') the store has
extractResources(text, resources) ==
    LET Known(match) == has(resources, Tail(match.text))
        matches == SelectSeq(matchAllURIs(text), Known)
    IN  [k \in 1..Len(matches) |->
           [resource |-> resources[Tail(matches[k].text)],
            start |-> matches[k].index,
            end |-> matches[k].index + Len(matches[k].text)]]

\* findResourceAtPosition(text, pos, resources, lineStart): the first match
\* of the text, offsets counted from lineStart, that has pos between its
\* start and its end, both included, and whose identifier the store has;
\* <<>> stands for null
findResourceAtPosition(text, pos, resources, lineStart) ==
    LET matches == matchAllURIs(text)
        hits == {k \in 1..Len(matches) :
                   /\ pos >= lineStart + matches[k].index
                   /\ pos <= lineStart + matches[k].index + Len(matches[k].text)
                   /\ Tail(matches[k].text) \in DOMAIN resources}
    IN  IF hits = {} THEN <<>>
        ELSE <<[resource |-> resources[Tail(matches[Min(hits)].text)],
                start |-> lineStart + matches[Min(hits)].index,
                end |-> lineStart + matches[Min(hits)].index
                           + Len(matches[Min(hits)].text)]>>

\* ------------------------------------------------------------- completion

\* completion: the completion request in flight, if any.  pc is "idle"
\* before the source is called, "fetching" while client.request is awaited
\* and "done" once the source has returned; method is the request issued
\* ("none" if none was); word, explicit and hasView are the match and the
\* context the source was called with; listed is the provider's answer;
\* result is what the source returned.
NoResult == [null |-> TRUE, from |-> 0, options |-> <<>>]

NoWord == [from |-> 0 - 1, to |-> 0 - 1]

NoCompletion ==
    [pc |-> "idle", method |-> "none", word |-> NoWord, explicit |-> FALSE,
     hasView |-> FALSE, listed |-> <<>>, result |-> NoResult,
     failure |-> "none"]

\* client: the MCP client of the extension.  connects counts the calls of
\* client.connect, outcome is what connectedPromise holds ("pending" until
\* it settles, then "connected" or "failed"), requests are the requests
\* sent with client.request, in order, and calls are the calls of
\* MCPResourceProvider's methods made so far.
\* Each call is [method, uri, pc, result, found]: pc is "awaiting" (the
\* connection), "listing", "reading" or "done", result what the call's
\* promise settled with, found the listed record getResource reads.  answered
\* and returned are the records of the last answer the provider used and
\* what it returned for them.  inflight holds the calls of the completion
\* source that wait for their list request while the variable completion
\* follows another call.
NewClient(outcome) ==
    [connects |-> 1, outcome |-> outcome, requests |-> <<>>, calls |-> <<>>,
     answered |-> <<>>, returned |-> <<>>, inflight |-> <<>>]

\* client.request({ method, params: { name } })
Requested(c, method, name) ==
    [c EXCEPT !.requests = Append(@, [method |-> method, name |-> name])]

\* apply: the apply of a prompt suggestion in progress: pc is "idle" until
\* a suggestion is picked, "getting" while prompts/get is awaited, "done"
\* afterwards; error is "none" or what the apply threw.
NoApply == [pc |-> "idle", name |-> <<>>, error |-> "none"]

\* host: the application around the editor: whether it registered
\* onPromptSubmit, the prompt results its callback was handed, and what
\* its last call of extractResources returned, the resource its resource
\* callbacks were last handed, and the last hover: the position hovered and
\* what the hover source returned for it (nothing, or one tooltip); the
\* resource handlers of its options as toDOM finds them, and the calls of
\* onResourceClick: the widget clicked and the resource handed over.
NewHost(registered) ==
    [onPromptSubmit |-> registered, submitted |-> <<>>, extracted |-> <<>>,
     resource |-> <<>>, tooltip |-> <<>>, mcpOptions |-> NoHandlers,
     clicked |-> <<>>]

\* str.search(/sigil(\w+)?$/) from index i on (1-based): the first index at
\* which the sigil stands with nothing but word characters up to the end of
\* str, or 0
RECURSIVE SearchAnchored(_, _, _)
SearchAnchored(str, sigil, i) ==
    IF i > Len(str) THEN 0
    ELSE IF str[i] = sigil /\ \A k \in (i + 1)..Len(str) : IsWordChar(str[k])
         THEN i
         ELSE SearchAnchored(str, sigil, i + 1)

\* the word found at index found of the text that starts at offset start
WordAt(start, found, pos) ==
    IF found = 0 THEN NoWord ELSE [from |-> start + found - 1, to |-> pos]

\* matchBefore on the text of the line from offset start up to the cursor
MatchBeforeFrom(doc, start, pos, sigil) ==
    WordAt(start, SearchAnchored(sliceString(doc, start, pos), sigil, 1), pos)

\* Mutation of matchBefore: the sigil is looked for anywhere on the line
\* before the cursor, whatever follows it
MatchAnySigilBefore(doc, pos, sigil) ==
    IF \E i \in (lineAt(doc, pos).from + 1)..pos : doc[i] = sigil
    THEN [from |-> Max({i \in (lineAt(doc, pos).from + 1)..pos :
                          doc[i] = sigil}) - 1,
          to |-> pos]
    ELSE NoWord

\* context.matchBefore(/sigil(\w+)?/): the text searched is the cursor's
\* line up to the cursor, at most 250 characters of it
matchBefore(doc, pos, sigil) ==
    MatchBeforeFrom(doc, Max({lineAt(doc, pos).from, pos - 250}), pos, sigil)

\* the source has returned without a request
ReturnedNull(word, explicit, hasView) ==
    [pc |-> "done", method |-> "none", word |-> word, explicit |-> explicit,
     hasView |-> hasView, listed |-> <<>>, result |-> NoResult,
     failure |-> "none"]

\* Mutation of HandlerStart: the request is sent whether or not the client
\* is connected
HandlerStartUnconnected(method, word, explicit, hasView, connected) ==
    IF word = NoWord THEN ReturnedNull(word, explicit, hasView)
    ELSE [pc |-> "fetching", method |-> method, word |-> word,
          explicit |-> explicit, hasView |-> hasView, listed |-> <<>>,
          result |-> NoResult, failure |-> "none"]

\* handleResourceCompletion / handlePromptCompletion up to the request: no
\* request without a word, for an empty word unless the completion is
\* explicit, or when the client is not connected
HandlerStart(method, word, explicit, hasView, connected) ==
    IF word = NoWord THEN ReturnedNull(word, explicit, hasView)
    ELSE IF word.from = word.to /\ ~explicit
         THEN ReturnedNull(word, explicit, hasView)
    ELSE IF ~connected THEN ReturnedNull(word, explicit, hasView)
    ELSE [pc |-> "fetching", method |-> method, word |-> word,
          explicit |-> explicit, hasView |-> hasView, listed |-> <<>>,
          result |-> NoResult, failure |-> "none"]

\* the override source once connectedPromise has resolved: the resource
\* word is tried first, then the prompt word
Override(resourceWord, promptWord, explicit, hasView, connected) ==
    IF resourceWord # NoWord
    THEN HandlerStart("resources/list", resourceWord, explicit, hasView,
                      connected)
    ELSE IF promptWord # NoWord
    THEN HandlerStart("prompts/list", promptWord, explicit, hasView, connected)
    ELSE ReturnedNull(NoWord, explicit, hasView)

\* new Map(entries.map(e => [key(e), e])): a later entry replaces an earlier
\* one of the same key
MapOf(entries, keys) ==
    [k \in {keys[i] : i \in 1..Len(keys)} |->
        entries[Max({i \in 1..Len(keys) : keys[i] = k})]]

\* Mutation of ResourceOption: the label is the name without the sigil
ResourceOptionUnsigiled(resource) ==
    [label |-> <<resource.name>>, displayLabel |-> resource.name,
     detail |-> resource.uri]

\* resources.map(resource => ({label: `@${resource.name}`, ...}))
ResourceOption(resource) ==
    [label |-> <<"@", resource.name>>, displayLabel |-> resource.name,
     detail |-> resource.uri]

\* prompts.map(prompt => ({label: `/${prompt.name}`, ...}))
PromptOption(prompt) ==
    [label |-> <<"/">> \o prompt.name, displayLabel |-> prompt.name,
     detail |-> prompt.description]

\* the source returns its suggestions
Returned(c, listed, options) ==
    [c EXCEPT !.pc = "done", !.listed = listed,
              !.result = [null |-> FALSE, from |-> c.word.from,
                          options |-> options]]

\* the source returns null after the request
ReturnedNullAfter(c, listed) ==
    [c EXCEPT !.pc = "done", !.listed = listed, !.result = NoResult]

\* view.dispatch({ effects })
EffectSpec(type, map) ==
    [userEvent |-> NoUserEvent, changes |-> <<>>, selection |-> NoSelection,
     effects |-> <<[type |-> type, value |-> map]>>, scrollIntoView |-> FALSE]

\* prompts.filter(prompt => !prompt.args || ...)
promptWithoutArgs(prompts) == SelectSeq(prompts, LAMBDA p : ~p.args)

\* ---------------------------------------------------------------- actions

\* one more edit transaction of the session; the listings are merged
\* before the edits, so no merge follows
CountEdit ==
    /\ editsLeft > 0
    /\ editsLeft' = editsLeft - 1
    /\ mergesLeft' = 0
    /\ UNCHANGED <<completion, client, apply, host, callsLeft>>

TypeText == CountEdit /\ \E spec \in TypeSpecs(state) : Dispatch(spec)

DeleteBackward == CountEdit /\ \E spec \in BackspaceSpecs(state) : Dispatch(spec)

DeleteForward == CountEdit /\ \E spec \in DeleteSpecs(state) : Dispatch(spec)

MoveCursor == CountEdit /\ \E spec \in MoveSpecs(state) : Dispatch(spec)

Undo == CountEdit /\ \E spec \in UndoSpecs(state) : Dispatch(spec)

HostDispatch == CountEdit /\ \E spec \in HostSpecs(state) : Dispatch(spec)

\* fetched entries are merged into the stores
Merge ==
    /\ mergesLeft > 0
    /\ mergesLeft' = mergesLeft - 1
    /\ UNCHANGED <<editsLeft, completion, client, apply, host, callsLeft>>
    /\ \E spec \in MergeSpecs : Dispatch(spec)

\* the view is scrolled or measured again, without a transaction: the
\* plugins get an update whose viewport may have changed
Scroll ==
    /\ \E viewport \in Viewports(state.doc) :
         view' = Draw(view,
                      resourceDecorationsUpdate(view, heap, state, viewport,
                                                FALSE, <<>>),
                      <<>>, resourcesOf(heap, state), host.mcpOptions)
    /\ tr' = [startState |-> state] @@ EmptySpec
    /\ out' = EmptySpec
    /\ heap' = LiveHeap(heap, state)
    /\ UNCHANGED <<state, completion, client, apply, host, lastWrite, batched,
                   editsLeft, mergesLeft, callsLeft>>

\* the visible ranges change without a transaction to a range that a folded
\* region or the gap of a long line cuts anywhere in the text: the plugins
\* get an update and slice the document at the ends of the range
Measure ==
    /\ \E from \in 0..Len(state.doc) : \E to \in from..Len(state.doc) :
         view' = Draw(view,
                      resourceDecorationsUpdate(view, heap, state,
                                                [from |-> from, to |-> to],
                                                FALSE, <<>>),
                      <<>>, resourcesOf(heap, state), host.mcpOptions)
    /\ tr' = [startState |-> state] @@ EmptySpec
    /\ out' = EmptySpec
    /\ heap' = LiveHeap(heap, state)
    /\ UNCHANGED <<state, completion, client, apply, host, lastWrite, batched,
                   editsLeft, mergesLeft, callsLeft>>

\* the user clicks a widget that toDOM gave a click listener: the listener
\* calls onResourceClick(this.resource), the resource of the widget that
\* drew the element. (A click on an element without the listener calls
\* nothing.)
Click ==
    /\ Len(host.clicked) < MaxClicks
    /\ \E i \in 1..Len(view.dom) :
         /\ "click" \in view.dom[i].listeners
         /\ host' = [host EXCEPT !.clicked =
                        Append(@, [from     |-> view.decorations[i].from,
                                   resource |-> view.dom[i].resource[1]])]
    /\ UNCHANGED <<state, heap, tr, out, view, completion, client, apply,
                   lastWrite, batched, editsLeft, mergesLeft, callsLeft>>

\* Mutation of DispatchIfView: the fetched entries are never merged
NeverDispatched(hasView, spec) ==
    UNCHANGED <<state, heap, tr, out, view, lastWrite, batched>>

\* the view, if the context has one, gets the merge; the editor is left
\* alone otherwise
DispatchIfView(hasView, spec) ==
    IF hasView THEN Dispatch(spec)
    ELSE UNCHANGED <<state, heap, tr, out, view, lastWrite, batched>>

\* the editor asks the completion source for suggestions at the cursor, as
\* the user types (explicit = FALSE) or on request (explicit = TRUE)
\* (the source awaits connectedPromise first, and its context is the state
\* it was called in)
\* Mutation of CompletionSource: no list request is sent while there is a
\* call in flight
CompletionSourceCoalesced ==
    /\ completion.pc \in {"idle", "done"}
    /\ client.outcome # "pending"
    /\ callsLeft > 0
    /\ callsLeft' = callsLeft - 1
    /\ \E explicit \in BOOLEAN, hasView \in BOOLEAN :
         completion' = Override(
             matchBefore(state.doc, state.selection.head, "@"),
             matchBefore(state.doc, state.selection.head, "/"),
             explicit, hasView, client.outcome = "connected")
    /\ client' = IF completion'.pc = "fetching" /\ client.inflight = <<>>
                 THEN Requested(client, completion'.method, <<>>)
                 ELSE client
    /\ UNCHANGED <<state, heap, tr, out, view, apply, host, lastWrite, batched,
                   editsLeft, mergesLeft>>

\* the override source is called: the user typed, or asked for completions
CompletionSource ==
    /\ completion.pc \in {"idle", "done"}
    /\ client.outcome # "pending"
    /\ callsLeft > 0
    /\ callsLeft' = callsLeft - 1
    /\ \E explicit \in BOOLEAN, hasView \in BOOLEAN :
         completion' = Override(
             matchBefore(state.doc, state.selection.head, "@"),
             matchBefore(state.doc, state.selection.head, "/"),
             explicit, hasView, client.outcome = "connected")
    /\ client' = IF completion'.pc = "fetching"
                 THEN Requested(client, completion'.method, <<>>)
                 ELSE client
    /\ UNCHANGED <<state, heap, tr, out, view, apply, host, lastWrite, batched,
                   editsLeft, mergesLeft>>

\* resources/list is answered: handleResourceCompletion from the await on
ResourcesListed ==
    /\ completion.pc = "fetching"
    /\ completion.method = "resources/list"
    /\ \E resources \in ResourceListings :
         IF Len(resources) = 0
         THEN /\ completion' = ReturnedNullAfter(completion, resources)
              /\ UNCHANGED <<state, heap, tr, out, view, lastWrite, batched>>
         ELSE /\ DispatchIfView(
                    completion.hasView,
                    EffectSpec("updateResources",
                               MapOf(resources,
                                     [i \in 1..Len(resources) |->
                                         resources[i].uri])))
              /\ completion' =
                    Returned(completion, resources,
                             [i \in 1..Len(resources) |->
                                 ResourceOption(resources[i])])
    /\ UNCHANGED <<client, apply, host, editsLeft, mergesLeft, callsLeft>>

\* prompts/list is answered: handlePromptCompletion from the await on
PromptsListed ==
    /\ completion.pc = "fetching"
    /\ completion.method = "prompts/list"
    /\ \E prompts \in PromptListings :
         IF Len(promptWithoutArgs(prompts)) = 0
         THEN /\ completion' = ReturnedNullAfter(completion, prompts)
              /\ UNCHANGED <<state, heap, tr, out, view, lastWrite, batched>>
         ELSE /\ DispatchIfView(
                    completion.hasView,
                    EffectSpec("updatePrompts",
                               MapOf(promptWithoutArgs(prompts),
                                     [i \in 1..Len(promptWithoutArgs(prompts)) |->
                                         promptWithoutArgs(prompts)[i].name])))
              /\ completion' =
                    Returned(completion, prompts,
                             [i \in 1..Len(prompts) |->
                                 PromptOption(prompts[i])])
    /\ UNCHANGED <<client, apply, host, editsLeft, mergesLeft, callsLeft>>

\* Mutation of FetchFails: the failure path dispatches an empty merge
FetchFailsDispatching ==
    /\ completion.pc = "fetching"
    /\ completion' = [ReturnedNullAfter(completion, <<>>)
                        EXCEPT !.failure = "logged"]
    /\ DispatchIfView(TRUE, EffectSpec("updateResources", EmptyMap))
    /\ UNCHANGED <<client, apply, host, editsLeft, mergesLeft, callsLeft>>

\* the request fails: the error is logged and the source returns null
FetchFails ==
    /\ completion.pc = "fetching"
    /\ completion' = [ReturnedNullAfter(completion, <<>>)
                        EXCEPT !.failure = "logged"]
    /\ UNCHANGED <<state, heap, tr, out, view, client, apply, host, lastWrite,
                   batched, editsLeft, mergesLeft, callsLeft>>

\* the apply of a resource option: view.dispatch({changes: {from, to,
\* insert: `@${resource.uri}`}})
ResourceInsertion(c, to, option) ==
    EditSpec(NoUserEvent, c.result.from, to, <<"@">> \o option.detail,
             NoSelection, FALSE)

\* the user picks a resource suggestion while the word it completes still
\* stands before the cursor: the editor calls the option's apply with the
\* result's from and the cursor
ApplyResource ==
    /\ completion.pc = "done"
    /\ completion.method = "resources/list"
    /\ ~completion.result.null
    /\ matchBefore(state.doc, state.selection.head, "@").from
          = completion.result.from
    /\ \E i \in 1..Len(completion.result.options) :
         Dispatch(ResourceInsertion(completion, state.selection.head,
                                    completion.result.options[i]))
    /\ UNCHANGED <<completion, client, apply, host, editsLeft, mergesLeft,
                   callsLeft>>

\* Mutation of PromptApplied: the prompt is asked for without a look at
\* onPromptSubmit
PromptAppliedUnchecked(name) ==
    /\ apply' = [pc |-> "getting", name |-> name, error |-> "none"]
    /\ client' = Requested(client, "prompts/get", name)

\* the apply of a prompt option up to its await: it throws when the host
\* registered no onPromptSubmit, and asks for the prompt otherwise
PromptApplied(name) ==
    IF ~host.onPromptSubmit
    THEN /\ apply' = [pc |-> "done", name |-> name,
                      error |-> "No onPromptSubmit callback set"]
         /\ UNCHANGED client
    ELSE /\ apply' = [pc |-> "getting", name |-> name, error |-> "none"]
         /\ client' = Requested(client, "prompts/get", name)

\* the user picks a prompt suggestion
ApplyPrompt ==
    /\ completion.pc = "done"
    /\ completion.method = "prompts/list"
    /\ ~completion.result.null
    /\ apply.pc = "idle"
    /\ \E i \in 1..Len(completion.result.options) :
         PromptApplied(completion.result.options[i].displayLabel)
    /\ UNCHANGED <<state, heap, tr, out, view, completion, host, lastWrite,
                   batched, editsLeft, mergesLeft, callsLeft>>

\* Mutation of PromptGet: onPromptSubmit is called whether or not
\* prompts/get was answered
PromptGetSubmitsAlways ==
    /\ apply.pc = "getting"
    /\ \E answered \in BOOLEAN :
         /\ apply' = [apply EXCEPT !.pc = "done",
                                   !.error = IF answered THEN "none"
                                             ELSE "prompts/get failed"]
         /\ host' = [host EXCEPT !.submitted =
                                    Append(@, [name |-> apply.name])]
    /\ UNCHANGED <<state, heap, tr, out, view, completion, client, lastWrite,
                   batched, editsLeft, mergesLeft, callsLeft>>

\* prompts/get is answered, and the result handed to onPromptSubmit, or it
\* fails, and the apply rejects
PromptGet ==
    /\ apply.pc = "getting"
    /\ \E answered \in BOOLEAN :
         IF answered
         THEN /\ apply' = [apply EXCEPT !.pc = "done"]
              /\ host' = [host EXCEPT !.submitted =
                                         Append(@, [name |-> apply.name])]
         ELSE /\ apply' = [apply EXCEPT !.pc = "done",
                                        !.error = "prompts/get failed"]
              /\ UNCHANGED host
    /\ UNCHANGED <<state, heap, tr, out, view, completion, client, lastWrite,
                   batched, editsLeft, mergesLeft, callsLeft>>

\* client.connect settles: the connection is made or has failed
ConnectSettles ==
    /\ client.outcome = "pending"
    /\ \E outcome \in {"connected", "failed"} :
         client' = [client EXCEPT !.outcome = outcome]
    /\ UNCHANGED <<state, heap, tr, out, view, completion, apply, host,
                   lastWrite, batched, editsLeft, mergesLeft, callsLeft>>

\* the host calls getResources(), getResource(uri) or isConnected()
ProviderCall ==
    /\ callsLeft > 0
    /\ callsLeft' = callsLeft - 1
    /\ \E method \in {"getResources", "getResource", "isConnected"} :
         client' = [client EXCEPT !.calls =
                       Append(@, [method |-> method,
                                  uri |-> IF method = "getResource"
                                          THEN Tail(Token) ELSE <<>>,
                                  pc |-> "awaiting", result |-> "pending",
                                  found |-> <<>>])]
    /\ UNCHANGED <<state, heap, tr, out, view, completion, apply, host,
                   lastWrite, batched, editsLeft, mergesLeft>>

\* a call goes on after its await of connectedPromise
ProviderStep ==
    /\ client.outcome # "pending"
    /\ \E i \in 1..Len(client.calls) :
         /\ client.calls[i].pc = "awaiting"
         /\ client' = ConnectionAwaited(client, i)
    /\ UNCHANGED <<state, heap, tr, out, view, completion, apply, host,
                   lastWrite, batched, editsLeft, mergesLeft, callsLeft>>

\* a request of a call is answered or fails: a failed or malformed
\* resources/list, a list of records, and the content read for getResource
\* (the empty content when resources/read fails)
ProviderAnswer ==
    /\ \E i \in 1..Len(client.calls) :
         \/ /\ client.calls[i].pc = "listing"
            /\ \/ client' = [client EXCEPT !.calls[i].pc = "done",
                                           !.calls[i].result = "request failed"]
               \/ client' = [client EXCEPT
                               !.calls[i].pc = "done",
                               !.calls[i].result =
                                  IF client.calls[i].method = "getResources"
                                  THEN "resources" ELSE "null",
                               !.answered = <<>>, !.returned = <<>>]
               \/ \E listed \in McpListings :
                    client' = ListAnswered(client, i, listed)
         \/ /\ client.calls[i].pc = "reading"
            /\ \E content \in {"", "c"} :
                 client' = [client EXCEPT
                               !.calls[i].pc = "done",
                               !.calls[i].result = "resource",
                               !.answered = client.calls[i].found,
                               !.returned =
                                  <<fromMCPResource(client.calls[i].found[1],
                                                    content)>>]
    /\ UNCHANGED <<state, heap, tr, out, view, completion, apply, host,
                   lastWrite, batched, editsLeft, mergesLeft, callsLeft>>

\* a resource callback of the host, wrapped by adaptResource, is called
\* with a resource the provider returned
AdaptedCallback ==
    /\ \E j \in 1..Len(client.returned) :
         host' = [host EXCEPT !.resource =
                                 <<toMCPResource(client.returned[j])>>]
    /\ UNCHANGED <<state, heap, tr, out, view, completion, client, apply,
                   lastWrite, batched, editsLeft, mergesLeft, callsLeft>>

\* mcpExtension of src/mcp.ts: the resources/list request of a completion
\* fails, getResources logs the error and throws it again, and neither
\* resourceCompletion nor the source catches it
ProviderFetchFails ==
    /\ completion.pc = "fetching"
    /\ completion.method = "resources/list"
    /\ completion' = [ReturnedNullAfter(completion, <<>>)
                        EXCEPT !.failure = "thrown"]
    /\ UNCHANGED <<state, heap, tr, out, view, client, apply, host, lastWrite,
                   batched, editsLeft, mergesLeft, callsLeft>>

\* the host calls extractResources(view)
ExtractResources ==
    /\ callsLeft > 0
    /\ callsLeft' = callsLeft - 1
    /\ host' = [host EXCEPT !.extracted =
                               extractResources(state.doc,
                                                resourcesOf(heap, state))]
    /\ UNCHANGED <<state, heap, tr, out, view, completion, client, apply,
                   lastWrite, batched, editsLeft, mergesLeft>>

\* the hover source of hoverResource for a position of the document: the
\* line of the position is searched.  hoverResource of src/resources/hover.ts
\* passes pos, hoverResource of src/hover.ts passes pos - from.
Hover ==
    /\ \E pos \in 0..Len(state.doc) : \E from \in {0, lineAt(state.doc, pos).from} :
         host' = [host EXCEPT !.tooltip =
                    <<[pos |-> pos,
                       result |->
                          findResourceAtPosition(
                             sliceString(state.doc, lineAt(state.doc, pos).from,
                                         lineAt(state.doc, pos).to),
                             pos - from, resourcesOf(heap, state),
                             lineAt(state.doc, pos).from)]>>]
    /\ UNCHANGED <<state, heap, tr, out, view, completion, client, apply,
                   lastWrite, batched, editsLeft, mergesLeft, callsLeft>>

\* Calls of the completion source overlap: a call that awaits its list
\* request stays in flight while the editor goes on and the source is called
\* again, and a call in flight is the next to get its answer.  Nothing in the
\* source joins or cancels the calls.
Interleave ==
    /\ \/ /\ completion.pc = "fetching"
          /\ client' = [client EXCEPT !.inflight = Append(@, completion)]
          /\ completion' = NoCompletion
       \/ /\ completion.pc \in {"idle", "done"}
          /\ \E i \in 1..Len(client.inflight) :
               /\ completion' = client.inflight[i]
               /\ client' = [client EXCEPT !.inflight =
                                SubSeq(@, 1, i - 1) \o SubSeq(@, i + 1, Len(@))]
    /\ UNCHANGED <<state, heap, tr, out, view, apply, host, lastWrite, batched,
                   editsLeft, mergesLeft, callsLeft>>

\* ------------------------------------------------------- specifications

\* the document a session starts from
SessionDoc == Token

\* EditorState.create({doc, selection}): both stores are created empty
Init ==
    /\ \E pos \in {0, Len(SessionDoc)} :
         state = [doc |-> SessionDoc, selection |-> cursor(pos),
                  resources |-> 1, prompts |-> 2]
    /\ heap = (1 :> EmptyMap) @@ (2 :> EmptyMap)
    /\ view = EditorView(heap, state, FullViewport(state.doc), NoHandlers)
    /\ tr = [startState |-> state] @@ EmptySpec
    /\ out = EmptySpec
    /\ completion = NoCompletion
    /\ client = NewClient("pending")
    /\ apply = NoApply
    /\ host = NewHost(FALSE)
    /\ callsLeft = 0
    /\ lastWrite = [updateResources |-> EmptyMap, updatePrompts |-> EmptyMap]
    /\ batched = FALSE
    /\ editsLeft = MaxEdits
    /\ mergesLeft = MaxMerges

Edit ==
    \/ TypeText
    \/ DeleteBackward
    \/ DeleteForward
    \/ MoveCursor
    \/ Undo
    \/ HostDispatch

Next == Edit \/ Merge

\* A session: listings are merged, then the user edits
Spec == Init /\ [][Next]_vars

\* One transaction filtered in any editor state of the bounded input space:
\* any document, any selection, any resource store
FilterInit ==
    /\ \E doc \in Docs : \E sel \in Selections(doc) :
         state = [doc |-> doc, selection |-> sel, resources |-> 1, prompts |-> 2]
    /\ \E store \in Stores :
         /\ heap = (1 :> store) @@ (2 :> EmptyMap)
         /\ lastWrite = [updateResources |-> store, updatePrompts |-> EmptyMap]
    /\ view = EditorView(heap, state, FullViewport(state.doc), NoHandlers)
    /\ tr = [startState |-> state] @@ EmptySpec
    /\ out = EmptySpec
    /\ completion = NoCompletion
    /\ client = NewClient("pending")
    /\ apply = NoApply
    /\ host = NewHost(FALSE)
    /\ callsLeft = 0
    /\ batched = FALSE
    /\ editsLeft = 1
    /\ mergesLeft = 0

FilterSpec == FilterInit /\ [][Edit]_vars

\* the document of a view that shows part of it: two lines, a token on each
ViewDoc == Token \o <<"\n">> \o Token \o <<"x">>

\* A view on a two-line document, shown whole or in part, with any store:
\* one listing is merged or the view scrolls, then the user edits or the
\* view scrolls
ViewInit ==
    /\ \E pos \in {0, Len(ViewDoc)} :
         state = [doc |-> ViewDoc, selection |-> cursor(pos),
                  resources |-> 1, prompts |-> 2]
    /\ \E store \in Stores :
         /\ heap = (1 :> store) @@ (2 :> EmptyMap)
         /\ lastWrite = [updateResources |-> store, updatePrompts |-> EmptyMap]
    /\ \E viewport \in Viewports(state.doc) :
         view = EditorView(heap, state, viewport, NoHandlers)
    /\ tr = [startState |-> state] @@ EmptySpec
    /\ out = EmptySpec
    /\ completion = NoCompletion
    /\ client = NewClient("pending")
    /\ apply = NoApply
    /\ host = NewHost(FALSE)
    /\ callsLeft = 0
    /\ batched = FALSE
    /\ editsLeft = 1
    /\ mergesLeft = 1

ViewNext == Edit \/ Merge \/ Scroll

\* what a host may pass as options: no mcpOptions field at all, or any set
\* of the three resource handlers
WidgetOptions == {<<>>} \cup {<<hs>> : hs \in SUBSET ResourceHandlers}

\* An editor whose widgets are drawn: a two-line document shown whole, any
\* store, any handlers; a listing is merged, the user types and clicks
WidgetInit ==
    /\ state = [doc |-> ViewDoc, selection |-> cursor(0),
                resources |-> 1, prompts |-> 2]
    /\ \E store \in Stores :
         /\ heap = (1 :> store) @@ (2 :> EmptyMap)
         /\ lastWrite = [updateResources |-> store, updatePrompts |-> EmptyMap]
    /\ \E mcpOptions \in WidgetOptions :
         /\ view = EditorView(heap, state, FullViewport(state.doc), mcpOptions)
         /\ host = [NewHost(FALSE) EXCEPT !.mcpOptions = mcpOptions]
    /\ tr = [startState |-> state] @@ EmptySpec
    /\ out = EmptySpec
    /\ completion = NoCompletion
    /\ client = NewClient("pending")
    /\ apply = NoApply
    /\ callsLeft = 0
    /\ batched = FALSE
    /\ editsLeft = 1
    /\ mergesLeft = 1

WidgetSpec == WidgetInit /\ [][Merge \/ TypeText \/ Scroll \/ Click]_vars

\* The same view when its visible ranges need not end on line boundaries:
\* listings are merged while the visible range changes
RangesSpec == ViewInit /\ [][Merge \/ Scroll \/ Measure]_vars

\* The matcher on any text: the text is in an editor with an empty store,
\* the cursor at its end, and the user presses Backspace
MatchInit ==
    /\ \E doc \in MatchTexts :
         state = [doc |-> doc, selection |-> cursor(Len(doc)),
                  resources |-> 1, prompts |-> 2]
    /\ heap = (1 :> EmptyMap) @@ (2 :> EmptyMap)
    /\ lastWrite = [updateResources |-> EmptyMap, updatePrompts |-> EmptyMap]
    /\ view = EditorView(heap, state, FullViewport(state.doc), NoHandlers)
    /\ tr = [startState |-> state] @@ EmptySpec
    /\ out = EmptySpec
    /\ completion = NoCompletion
    /\ client = NewClient("pending")
    /\ apply = NoApply
    /\ host = NewHost(FALSE)
    /\ callsLeft = 0
    /\ batched = FALSE
    /\ editsLeft = 1
    /\ mergesLeft = 0

MatchSpec == MatchInit /\ [][DeleteBackward]_vars

\* A completion asked in any short document at any cursor position, the
\* stores empty, the connection made or failed; the user may type one character before, while or after
\* the provider is asked
CompletionInit ==
    /\ \E doc \in TriggerDocs : \E pos \in 0..Len(doc) :
         state = [doc |-> doc, selection |-> cursor(pos),
                  resources |-> 1, prompts |-> 2]
    /\ heap = (1 :> EmptyMap) @@ (2 :> EmptyMap)
    /\ lastWrite = [updateResources |-> EmptyMap, updatePrompts |-> EmptyMap]
    /\ view = EditorView(heap, state, FullViewport(state.doc), NoHandlers)
    /\ tr = [startState |-> state] @@ EmptySpec
    /\ out = EmptySpec
    /\ completion = NoCompletion
    /\ \E outcome \in {"connected", "failed"} : client = NewClient(outcome)
    /\ apply = NoApply
    /\ host = NewHost(FALSE)
    /\ callsLeft = 1
    /\ batched = FALSE
    /\ editsLeft = 1
    /\ mergesLeft = 0

CompletionNext ==
    \/ CompletionSource
    \/ ResourcesListed
    \/ PromptsListed
    \/ FetchFails
    \/ TypeText

CompletionSpec == CompletionInit /\ [][CompletionNext]_vars

\* A suggestion picked: a completion is asked right after a sigil, with or
\* without a word character, with any text before and after it, the client
\* connected, the host with or without onPromptSubmit; the user then picks
\* one of the suggestions
ApplyInit ==
    /\ \E pre \in {<<>>, <<"x", " ">>}, post \in {<<>>, <<" ">>, <<"x">>},
          sigil \in {"@", "/"}, word \in {<<>>, <<"a">>} :
         state = [doc |-> pre \o <<sigil>> \o word \o post,
                  selection |-> cursor(Len(pre) + 1 + Len(word)),
                  resources |-> 1, prompts |-> 2]
    /\ heap = (1 :> EmptyMap) @@ (2 :> EmptyMap)
    /\ lastWrite = [updateResources |-> EmptyMap, updatePrompts |-> EmptyMap]
    /\ view = EditorView(heap, state, FullViewport(state.doc), NoHandlers)
    /\ tr = [startState |-> state] @@ EmptySpec
    /\ out = EmptySpec
    /\ completion = NoCompletion
    /\ client = NewClient("connected")
    /\ apply = NoApply
    /\ \E registered \in BOOLEAN : host = NewHost(registered)
    /\ batched = FALSE
    /\ editsLeft = 0
    /\ mergesLeft = 0
    /\ callsLeft = 1

ApplyNext ==
    \/ CompletionSource
    \/ ResourcesListed
    \/ PromptsListed
    \/ ApplyResource
    \/ ApplyPrompt
    \/ PromptGet

ApplySpec == ApplyInit /\ [][ApplyNext]_vars

\* The provider and its connection: the connection settles at some point;
\* the host calls the provider's methods and the user triggers completions
\* in any order, MaxCalls times in all; the list requests of the
\* completions fail
ProviderInit ==
    /\ \E sigil \in {"@", "/"} :
         state = [doc |-> <<sigil>>, selection |-> cursor(1),
                  resources |-> 1, prompts |-> 2]
    /\ heap = (1 :> EmptyMap) @@ (2 :> EmptyMap)
    /\ lastWrite = [updateResources |-> EmptyMap, updatePrompts |-> EmptyMap]
    /\ view = EditorView(heap, state, FullViewport(state.doc), NoHandlers)
    /\ tr = [startState |-> state] @@ EmptySpec
    /\ out = EmptySpec
    /\ completion = NoCompletion
    /\ client = NewClient("pending")
    /\ apply = NoApply
    /\ host = NewHost(FALSE)
    /\ batched = FALSE
    /\ editsLeft = 0
    /\ mergesLeft = 0
    /\ callsLeft = MaxCalls

ProviderNext ==
    \/ ConnectSettles
    \/ ProviderCall
    \/ ProviderStep
    \/ ProviderAnswer
    \/ AdaptedCallback
    \/ CompletionSource
    \/ FetchFails
    \/ ProviderFetchFails

ProviderSpec == ProviderInit /\ [][ProviderNext]_vars

\* The host's lookups on their own: any document of two texts put together
\* and any store; one call of extractResources, and hovers
ExtractInit ==
    /\ \E head \in Texts(MaxPieces - 1), rest \in Texts(MaxPieces - 1) :
         state = [doc |-> head \o rest, selection |-> cursor(0),
                  resources |-> 1, prompts |-> 2]
    /\ \E store \in Stores :
         /\ heap = (1 :> store) @@ (2 :> EmptyMap)
         /\ lastWrite = [updateResources |-> store, updatePrompts |-> EmptyMap]
    /\ view = EditorView(heap, state, FullViewport(state.doc), NoHandlers)
    /\ tr = [startState |-> state] @@ EmptySpec
    /\ out = EmptySpec
    /\ completion = NoCompletion
    /\ client = NewClient("pending")
    /\ apply = NoApply
    /\ host = NewHost(FALSE)
    /\ callsLeft = 1
    /\ batched = FALSE
    /\ editsLeft = 0
    /\ mergesLeft = 0

ExtractSpec == ExtractInit /\ [][ExtractResources \/ Hover]_vars

\* Overlapping completions: the cursor is behind an '@', the client is
\* connected; the source is called up to MaxCalls times, the calls overlap
\* with each other and with the user's typing
ConcurrentInit ==
    /\ state = [doc |-> <<"@">>, selection |-> cursor(1),
                resources |-> 1, prompts |-> 2]
    /\ heap = (1 :> EmptyMap) @@ (2 :> EmptyMap)
    /\ lastWrite = [updateResources |-> EmptyMap, updatePrompts |-> EmptyMap]
    /\ view = EditorView(heap, state, FullViewport(state.doc), NoHandlers)
    /\ tr = [startState |-> state] @@ EmptySpec
    /\ out = EmptySpec
    /\ completion = NoCompletion
    /\ client = NewClient("connected")
    /\ apply = NoApply
    /\ host = NewHost(FALSE)
    /\ callsLeft = MaxCalls
    /\ batched = FALSE
    /\ editsLeft = MaxEdits
    /\ mergesLeft = 0

ConcurrentSpec ==
    ConcurrentInit
       /\ [][CompletionSource \/ Interleave \/ ResourcesListed \/ FetchFails
               \/ TypeText]_vars

ViewSpec == ViewInit /\ [][ViewNext]_vars

\* ------------------------------------------------- properties: the filter

\* the store, the document and the cursor the last transaction started from
StartStore == heap[tr.startState.resources]

StartDoc == tr.startState.doc

StartCursor == tr.startState.selection.head

\* the tokens of the pre-transaction document: the matches of the pattern
\* over the whole text
TokensOf(doc) == {SpansIn(doc, 0)[i] : i \in 1..Len(SpansIn(doc, 0))}

\* tokens whose identifier is in the store
ResolvedTokens == {t \in TokensOf(StartDoc) : t.uri \in DOMAIN StartStore}

\* tokens whose identifier is not in the store
UnresolvedTokens == {t \in TokensOf(StartDoc) : t.uri \notin DOMAIN StartStore}

\* the text without the characters at offsets [from, to)
Without(doc, from, to) == SubSeq(doc, 1, from) \o SubSeq(doc, to + 1, Len(doc))

\* the last transaction was a user delete with a collapsed cursor
CursorDelete(direction) ==
    /\ tr.userEvent = <<"delete", direction>>
    /\ empty(tr.startState.selection)

\* the last transaction deleted exactly the token t and left the cursor at
\* its start
TokenDeleted(t) ==
    /\ out.changes = <<[from |-> t.from, to |-> t.to, insert |-> <<>>]>>
    /\ state.doc = Without(StartDoc, t.from, t.to)
    /\ state.selection = cursor(t.from)

\* the filter returned the transaction it received, and its changes and
\* selection are what was applied
PassedThrough ==
    /\ out = SpecOf(tr)
    /\ state.doc = ApplyChanges(StartDoc, tr.changes)
    /\ state.selection = NewSelection(tr.startState, SpecOf(tr))

\* C1: a user backward delete with a collapsed cursor exactly at the end of
\* a token whose identifier is in the store deletes exactly the token span
\* [start, end) of the pre-transaction document and puts the cursor at start.
BackwardDeleteRemovesToken ==
    CursorDelete("backward") =>
        \A t \in ResolvedTokens : t.to = StartCursor => TokenDeleted(t)

\* C1, its case: Backspace at the end of a resolved token that has text on
\* both sides, and the token is gone
BackwardDeleteAtTokenEnd ==
    /\ CursorDelete("backward")
    /\ \E t \in ResolvedTokens :
         /\ t.to = StartCursor
         /\ t.from > 0
         /\ t.to < Len(StartDoc)
         /\ Len(state.doc) = Len(StartDoc) - (t.to - t.from)

\* C2: a user forward delete with a collapsed cursor exactly at the start of
\* a resolved token deletes exactly [start, end) and the cursor stays at
\* start.
ForwardDeleteRemovesToken ==
    CursorDelete("forward") =>
        \A t \in ResolvedTokens : t.from = StartCursor => TokenDeleted(t)

\* C2, its case: Delete at the start of a resolved token that has text on
\* both sides, and the cursor has not moved
ForwardDeleteAtTokenStart ==
    /\ CursorDelete("forward")
    /\ \E t \in ResolvedTokens :
         /\ t.from = StartCursor
         /\ t.from > 0
         /\ t.to < Len(StartDoc)
         /\ state.selection = tr.startState.selection
         /\ Len(state.doc) = Len(StartDoc) - (t.to - t.from)

\* C3: a backward or forward delete with the cursor at a boundary of a token
\* whose identifier is not in the store is returned as it came, so only the
\* deletion the transaction asked for is applied.
UnresolvedDeleteNotIntercepted ==
    (/\ CursorDelete("backward") \/ CursorDelete("forward")
     /\ \E t \in UnresolvedTokens : StartCursor \in {t.from, t.to})
        => PassedThrough

\* C3, its case: Backspace at the end of an unresolved token while the store
\* holds other identifiers, and one character is gone
BackspaceAtUnresolvedToken ==
    /\ CursorDelete("backward")
    /\ \E t \in UnresolvedTokens : StartCursor = t.to
    /\ DOMAIN StartStore # {}
    /\ state.doc = Without(StartDoc, StartCursor - 1, StartCursor)

\* C4: the filter never blocks an edit: when the incoming transaction
\* changes the document, so does the transaction the filter returns.
FilterNeverBlocksEdit ==
    ~ChangesEmpty(tr.changes) => ~ChangesEmpty(out.changes)

\* C5: a transaction filtered while the selection is a non-empty range is
\* returned unmodified, whatever its user event.
RangeSelectionPassesThrough ==
    ~empty(tr.startState.selection) => PassedThrough

\* C5, its case: Backspace over a selected range whose head sits at the end
\* of a resolved token
RangeDeleteAtTokenEnd ==
    /\ ~empty(tr.startState.selection)
    /\ tr.userEvent = <<"delete", "backward">>
    /\ \E t \in ResolvedTokens : t.to = StartCursor
    /\ Len(state.doc) < Len(StartDoc)

\* C6: a transaction without a user event is returned unmodified, for every
\* document, store and cursor position.
NoUserEventPassesThrough ==
    tr.userEvent = NoUserEvent => PassedThrough

\* C6, its case: the host moves a collapsed cursor that sat at the end of a
\* resolved token to the left, past the token's start
HostMovesCursorOffToken ==
    /\ tr.userEvent = NoUserEvent
    /\ empty(tr.startState.selection)
    /\ tr.selection # NoSelection
    /\ \E t \in ResolvedTokens :
         /\ t.to = StartCursor
         /\ tr.selection.head < t.from
         /\ state.selection = tr.selection

\* -------------------------------------------------- properties: the stores

\* the resource store of the current state
Store == heap[state.resources]

\* the store a merge effect type is written to
StoreOfType(type) ==
    IF type = "updateResources" THEN heap[state.resources]
    ELSE heap[state.prompts]

\* the effects of the last transaction, from the i-th on, that are of the
\* type of the i-th and hold key k
LaterWrites(i, k) ==
    {j \in i..Len(out.effects) :
        /\ out.effects[j].type = out.effects[i].type
        /\ k \in DOMAIN out.effects[j].value}

\* the last transaction merged into the resource store
MergedResources == EffectsOf(out.effects, "updateResources") # {}

\* C7: after any sequence of merges applied in separate transactions the
\* store is the union of what was merged, the new entry winning: every key
\* of every merge is present and holds the entry of the last merge that
\* contained it.
SeparateMergesAccumulate ==
    ~batched => Store = lastWrite.updateResources

\* C7, its case: a later merge, alone in its transaction, gave a new entry to
\* an identifier an earlier merge had put in the store
LaterMergeOverwrote ==
    /\ ~batched
    /\ MergedResources
    /\ \E k \in DOMAIN StartStore : Store[k] # StartStore[k]

\* C8: when one transaction carries several merge effects, the store holds
\* the entries of every one of them, a later effect winning over an earlier
\* one on the same identifier (for the resource and the prompt store).
EveryMergeEffectApplied ==
    \A i \in 1..Len(out.effects) : \A k \in DOMAIN out.effects[i].value :
        /\ k \in DOMAIN StoreOfType(out.effects[i].type)
        /\ StoreOfType(out.effects[i].type)[k]
             = out.effects[Max(LaterWrites(i, k))].value[k]

\* C9: a merge never mutates the store value it starts from, and the state
\* it produces holds a new store value.
MergeLeavesOldStore ==
    [][/\ heap'[state.resources] = heap[state.resources]
       /\ heap'[state.prompts] = heap[state.prompts]
       /\ EffectsOf(out'.effects, "updateResources") # {}
            => state'.resources # state.resources
       /\ EffectsOf(out'.effects, "updatePrompts") # {}
            => state'.prompts # state.prompts]_vars

\* C9, its case: a merge into a store that already had entries produced a
\* store with other entries, and the store it started from still has its own
OldAndNewStoreDiffer ==
    /\ MergedResources
    /\ DOMAIN StartStore # {}
    /\ state.resources # tr.startState.resources
    /\ Store # StartStore

\* C10: the store only grows: for every transaction the identifiers in the
\* store after it include the identifiers before it.
StoreOnlyGrows ==
    [][DOMAIN heap[state.resources] \subseteq DOMAIN heap'[state'.resources]]_vars

\* C10, its case: a Backspace that the filter turned into the deletion of a
\* resolved token, in a session whose store holds every listed identifier
TokenDeletedStoreKept ==
    /\ tr.userEvent = <<"delete", "backward">>
    /\ out # SpecOf(tr)
    /\ state.doc = <<>>
    /\ DOMAIN Store = ResourceKeys

\* the prompt store of the current state
PromptStore == heap[state.prompts]

\* the last transaction merged into the prompt store
MergedPrompts == EffectsOf(out.effects, "updatePrompts") # {}

\* C11: resources and prompts are separate namespaces: a transaction without
\* a prompt merge leaves the prompt store as it was, one without a resource
\* merge leaves the resource store as it was, and one without any merge
\* leaves both.
StoresAreSeparate ==
    [][/\ EffectsOf(out'.effects, "updatePrompts") = {}
            => /\ state'.prompts = state.prompts
               /\ heap'[state'.prompts] = heap[state.prompts]
       /\ EffectsOf(out'.effects, "updateResources") = {}
            => /\ state'.resources = state.resources
               /\ heap'[state'.resources] = heap[state.resources]]_vars

\* C11, its case: a resource was merged, alone, under an identifier that is
\* also the name of a prompt in the prompt store
ResourceMergedUnderPromptName ==
    /\ MergedResources
    /\ ~MergedPrompts
    /\ \E i \in 1..Len(out.effects) :
         DOMAIN out.effects[i].value \cap DOMAIN PromptStore # {}

\* --------------------------------------------- properties: decorations

\* the tokens of the current document
TokensNow == TokensOf(state.doc)

\* the tokens of the visible text, with their offsets in the document
VisibleTokens ==
    {SpansIn(sliceString(state.doc, view.viewport.from, view.viewport.to),
             view.viewport.from)[i] :
        i \in 1..Len(SpansIn(sliceString(state.doc, view.viewport.from,
                                         view.viewport.to),
                             view.viewport.from))}

\* what a sequence of decorations marks: span, identifier and kind
Marks(decorations) ==
    {[from |-> decorations[i].from, to |-> decorations[i].to,
      uri |-> decorations[i].uri,
      resolved |-> decorations[i].widget = "ResourceWidget"] :
        i \in 1..Len(decorations)}

\* the marks the given tokens should have with the current store
MarksFor(tokens) ==
    {[from |-> t.from, to |-> t.to, uri |-> t.uri,
      resolved |-> t.uri \in DOMAIN Store] : t \in tokens}

\* the document is shown whole
FullyVisible == view.viewport = FullViewport(state.doc)

DecorationsFollowUpdates ==
    /\ [](Marks(view.decorations) = MarksFor(VisibleTokens)
            /\ Len(view.decorations) = Cardinality(VisibleTokens))
    /\ [][/\ view'.recomputed =
               (\/ ~ChangesEmpty(out'.changes)
                \/ view'.viewport # view.viewport
                \/ EffectsOf(out'.effects, "updateResources") # {})
          /\ ~view'.recomputed => view'.decorations = view.decorations]_vars

\* C14, its case: a merge made an unresolved token of a partly shown
\* document resolved, and its decoration followed
MergeRedecorated ==
    /\ MergedResources
    /\ ~FullyVisible
    /\ view.recomputed
    /\ \E t \in VisibleTokens :
         t.uri \in DOMAIN Store /\ t.uri \notin DOMAIN StartStore

\* The grammar of a resource token, stated on a whole text: the sigil, a
\* scheme of one or more word characters or hyphens, "://", and a tail of
\* one or more characters that are not whitespace, the first not a slash
InGrammar(text) ==
    \E s \in 2..Len(text) :
        /\ text[1] = "@"
        /\ \A k \in 2..s : IsSchemeChar(text[k])
        /\ s + 4 <= Len(text)
        /\ SubSeq(text, s + 1, s + 3) = <<":", "/", "/">>
        /\ text[s + 4] # "/"
        /\ \A k \in (s + 4)..Len(text) : ~IsWhitespace(text[k])

\* the grammar is satisfied by some stretch of the text that starts at p
GrammarAt(text, p) ==
    \E e \in p..Len(text) : InGrammar(SubSeq(text, p, e))

\* the matches reported for the current text
Matches == matchAllURIs(state.doc)

\* the text is reported as one match that covers it
MatchedInFull(text) == matchAllURIs(text) = <<[index |-> 0, text |-> text]>>

\* C15: a text that satisfies the token grammar ('@github://repo', also
\* with a trailing slash, a sub-path, a query or a fragment) is matched in
\* full; a text no stretch of which satisfies it ('@', a text without '@',
\* '@github:/repo', '@github:///repo', '@github:repo', '@://repo',
\* '@github://', a scheme with a space in it) has no match.
GrammarDecidesMatch ==
    /\ state.doc \in ValidURIs => MatchedInFull(state.doc)
    /\ state.doc \in InvalidURIs => Matches = <<>>
    /\ InGrammar(state.doc) => MatchedInFull(state.doc)
    /\ (\A p \in 1..Len(state.doc) : ~GrammarAt(state.doc, p)) => Matches = <<>>

\* C15, its case: Backspace turned '@github://repo/' into '@github://repo'
ValidURIAfterBackspace ==
    /\ editsLeft = 0
    /\ state.doc \in ValidURIs
    /\ tr.startState.doc \in ValidURIs
    /\ state.doc # tr.startState.doc

\* C16: the matches of a text are reported from left to right, no two of
\* them overlap, and each matched stretch, taken on its own, satisfies the
\* grammar and is matched in full.
MatchesOrderedAndDisjoint ==
    /\ \A i \in 1..Len(Matches) :
         /\ Matches[i].text =
              SubSeq(state.doc, Matches[i].index + 1,
                     Matches[i].index + Len(Matches[i].text))
         /\ InGrammar(Matches[i].text)
         /\ MatchedInFull(Matches[i].text)
    /\ \A i \in 1..Len(Matches) : \A j \in 1..Len(Matches) :
         i < j => Matches[i].index + Len(Matches[i].text) <= Matches[j].index

\* C16, its case: a text with two matches, each of them decorated
TwoMatches ==
    /\ Len(Matches) = 2
    /\ Len(view.decorations) = 2
    /\ Matches[1].index + Len(Matches[1].text) < Matches[2].index

\* the positions (0-based) at which a match is reported
MatchStarts == {Matches[i].index : i \in 1..Len(Matches)}

\* position p (0-based) lies inside a match that started further left
InsideEarlierMatch(p) ==
    \E i \in 1..Len(Matches) :
        Matches[i].index < p /\ p < Matches[i].index + Len(Matches[i].text)

\* C17 as stated: every position at which the grammar is satisfied is
\* reported as the start of a match.
EveryGrammarPositionReported ==
    \A p \in 1..Len(state.doc) :
        GrammarAt(state.doc, p) => (p - 1) \in MatchStarts

\* C17, amended: every position at which the grammar is satisfied and which
\* does not lie inside a match that started further left is reported as the
\* start of a match, whatever character precedes the sigil (no whitespace
\* is required before it).
GrammarPositionOutsideMatchReported ==
    \A p \in 1..Len(state.doc) :
        GrammarAt(state.doc, p) =>
            (p - 1) \in MatchStarts \/ InsideEarlierMatch(p - 1)

\* C17, its case: a match that starts right after a word character
MatchAfterWordChar ==
    /\ editsLeft = 0
    /\ \E p \in 2..Len(state.doc) :
         /\ (p - 1) \in MatchStarts
         /\ IsWordChar(state.doc[p - 1])

\* ---------------------------------------------- properties: the completion

\* the text before offset pos ends with the sigil followed by nothing but
\* word characters
SigilInProgress(doc, pos, sigil) ==
    \E i \in 1..pos :
        doc[i] = sigil /\ \A k \in (i + 1)..pos : IsWordChar(doc[k])

\* the step is a call of the completion source
SourceCalled == completion.pc = "idle" /\ completion'.pc # "idle"

\* the step is the source's return after an answered or failed request
SourceReturned == completion.pc = "fetching" /\ completion'.pc = "done"

\* C18: when the text before the cursor holds no sigil in progress ('@' or
\* '/' followed by word characters only), or the matched span is empty and
\* the completion is not explicit, the source returns no suggestions and
\* issues no request.
NoTriggerNoFetch ==
    [][SourceCalled
         /\ (\/ /\ ~SigilInProgress(state.doc, state.selection.head, "@")
                /\ ~SigilInProgress(state.doc, state.selection.head, "/")
             \/ /\ completion'.word.from = completion'.word.to
                /\ ~completion'.explicit)
       => /\ completion'.pc = "done"
          /\ completion'.method = "none"
          /\ completion'.result = NoResult]_vars

\* C18, its case: the source was called explicitly with a sigil on the line
\* before the cursor, but not in progress, and returned without a request
SigilNotInProgress ==
    /\ completion.pc = "done"
    /\ completion.method = "none"
    /\ completion.explicit
    /\ completion.word = NoWord
    /\ editsLeft = 1
    /\ \E i \in 1..state.selection.head :
         /\ state.doc[i] = "@"
         /\ \A k \in i..state.selection.head : state.doc[k] # "\n"

\* C19: a completion at an '@' in progress whose request is answered with
\* k >= 1 resources returns k suggestions, the i-th labelled '@' + the name
\* of the i-th resource, starting at the sigil; answered with no resource it
\* returns no suggestions.
SuggestionPerResource ==
    [][/\ SourceCalled /\ completion'.method = "resources/list"
            => /\ state.doc[completion'.word.from + 1] = "@"
               /\ completion'.word.to = state.selection.head
               /\ \A k \in (completion'.word.from + 2)..state.selection.head :
                    IsWordChar(state.doc[k])
       /\ SourceReturned /\ completion.method = "resources/list"
            /\ Len(completion'.listed) >= 1
            => /\ ~completion'.result.null
               /\ completion'.result.from = completion.word.from
               /\ Len(completion'.result.options) = Len(completion'.listed)
               /\ \A i \in 1..Len(completion'.listed) :
                    completion'.result.options[i].label
                       = <<"@", completion'.listed[i].name>>
       /\ SourceReturned /\ completion.method = "resources/list"
            /\ Len(completion'.listed) = 0
            => completion'.result = NoResult]_vars

\* C19, its case: "hello @" with two resources of different names listed
TwoSuggestions ==
    /\ completion.pc = "done"
    /\ completion.method = "resources/list"
    /\ Len(completion.result.options) = 2
    /\ completion.result.options[1].label # completion.result.options[2].label
    /\ completion.result.from = 6
    /\ editsLeft = 1
    /\ Len(state.doc) = 7

\* C20 as stated: whenever a resource completion returns suggestions, the
\* store resolves the identifier of every listed resource.
SuggestedResourcesMerged ==
    [][SourceReturned /\ completion.method = "resources/list"
         /\ ~completion'.result.null
       => \A i \in 1..Len(completion'.listed) :
            completion'.listed[i].uri \in DOMAIN heap'[state'.resources]]_vars

\* C20, amended: whenever a resource completion whose context has a view
\* returns suggestions, the store resolves the identifier of every listed
\* resource.
SuggestedResourcesMergedIfView ==
    [][SourceReturned /\ completion.method = "resources/list"
         /\ ~completion'.result.null /\ completion.hasView
       => \A i \in 1..Len(completion'.listed) :
            completion'.listed[i].uri \in DOMAIN heap'[state'.resources]]_vars

\* C20, its case: the suggestions are back, the two listed resources were
\* not in the store before and are now
ListedResourcesResolved ==
    /\ completion.pc = "done"
    /\ completion.method = "resources/list"
    /\ completion.hasView
    /\ Len(completion.result.options) = 2
    /\ completion.listed[1].uri # completion.listed[2].uri
    /\ EffectsOf(out.effects, "updateResources") # {}
    /\ DOMAIN StartStore = {}
    /\ \A i \in 1..2 : completion.listed[i].uri \in DOMAIN Store

\* ------------------------------------------ properties: picking a suggestion

\* the step replaces the span from the result's from to the cursor by text
Replaces(text) ==
    state'.doc = SubSeq(state.doc, 1, completion.result.from) \o text
                   \o SubSeq(state.doc, state.selection.head + 1,
                             Len(state.doc))

\* C21: picking a resource suggestion replaces the span from the result's
\* from to the cursor by '@' + identifier + ' ', whatever follows the span,
\* and changes nothing else in the document.
ResourceApplyAddsSpace ==
    [][state'.doc # state.doc
       => \E i \in 1..Len(completion.result.options) :
            Replaces(<<"@">> \o completion.result.options[i].detail
                       \o <<" ">>)]_vars

\* ------------------------------------- properties: provider and connection

\* C22: a list request that fails, for resources or for prompts, never makes
\* the completion source throw or reject: the failure is logged and the
\* source resolves to no suggestions.
FetchFailureContained ==
    [][completion.pc = "fetching" /\ completion'.pc = "done"
       /\ completion'.listed = <<>> /\ completion'.failure # "none"
          => /\ completion'.failure = "logged"
             /\ completion'.result = NoResult]_vars

\* what a finished call of a provider method saw of the connection
Observed(call) ==
    IF call.method = "isConnected"
    THEN (IF call.result = "true" THEN "connected" ELSE "failed")
    ELSE (IF call.result = "MCP client is not connected"
          THEN "failed" ELSE "connected")

\* C23: client.connect is called once for the provider, whatever is called
\* and in whatever order, and the outcome of that one attempt is the outcome
\* every finished isConnected, getResources and getResource call and every
\* completion trigger saw; once settled the outcome does not change.
ConnectedOnce ==
    [][/\ client'.connects = 1
       /\ client.outcome # "pending" => client'.outcome = client.outcome
       /\ \A i \in 1..Len(client'.calls) :
            client'.calls[i].pc # "awaiting"
               => /\ client'.outcome # "pending"
                  /\ client'.calls[i].pc = "done"
                        => Observed(client'.calls[i]) = client'.outcome
       /\ completion'.pc # "idle" /\ completion'.word # NoWord
             => (completion'.method = "none" <=> client'.outcome = "failed")
      ]_vars

\* C23 witness: the connection was made, and an isConnected call, a
\* getResources call and a completion trigger have all seen it
AllSawConnection ==
    /\ client.outcome = "connected"
    /\ Len(client.calls) = 2
    /\ \E i, j \in 1..Len(client.calls) :
         /\ client.calls[i].method = "isConnected"
         /\ client.calls[i].result = "true"
         /\ client.calls[j].method = "getResources"
         /\ client.calls[j].result = "resources"
    /\ completion.pc = "done"
    /\ completion.method # "none"

\* C24: once the connection has failed it stays failed; no step connects
\* again or sends a request, and every completion trigger, for '@' or '/',
\* returns no suggestions.
FailedConnectionNoSuggestions ==
    [][client.outcome = "failed"
          => /\ client'.outcome = "failed"
             /\ client'.connects = client.connects
             /\ client'.requests = client.requests
             /\ completion' # completion
                   => /\ completion'.pc = "done"
                      /\ completion'.result = NoResult
                      /\ completion'.failure = "none"]_vars

\* C24 witness: the connection failed and every call of the session was a
\* completion trigger on a sigil, which found its word and returned nothing
TriggersAfterFailure ==
    /\ client.outcome = "failed"
    /\ callsLeft = 0
    /\ client.calls = <<>>
    /\ client.requests = <<>>
    /\ completion.pc = "done"
    /\ completion.word # NoWord
    /\ completion.result = NoResult

\* C25: when the connection failed, every getResources and getResource call
\* that goes on after awaiting it is rejected with 'MCP client is not
\* connected', and no request is sent.
NotConnectedRejected ==
    [][client.outcome = "failed"
          => /\ client'.requests = client.requests
             /\ \A i \in 1..Len(client.calls) :
                  (/\ client.calls[i].pc = "awaiting"
                   /\ client'.calls[i].pc # "awaiting"
                   /\ client.calls[i].method # "isConnected")
                     => /\ client'.calls[i].pc = "done"
                        /\ client'.calls[i].result
                              = "MCP client is not connected"]_vars

\* C25 witness: the connection failed, getResources and getResource were
\* both called, one of them twice, and every call was rejected
BothRejectedTwice ==
    /\ client.outcome = "failed"
    /\ Len(client.calls) = 3
    /\ \A i \in 1..Len(client.calls) :
         /\ client.calls[i].method # "isConnected"
         /\ client.calls[i].result = "MCP client is not connected"
    /\ \E i, j \in 1..Len(client.calls) :
         /\ client.calls[i].method = "getResources"
         /\ client.calls[j].method = "getResource"
    /\ client.requests = <<>>

\* ------------------------------------------ properties: picking a prompt

\* the prompts/get requests sent so far
PromptGets(requests) ==
    {i \in 1..Len(requests) : requests[i].method = "prompts/get"}

\* C26: when the host registered no onPromptSubmit, picking a prompt
\* suggestion ends at once with the error 'No onPromptSubmit callback set':
\* no request is sent, nothing is handed to the host and the document is
\* as before.
PromptWithoutCallbackFails ==
    [][~host.onPromptSubmit /\ apply.pc = "idle" /\ apply'.pc # "idle"
          => /\ apply'.pc = "done"
             /\ apply'.error = "No onPromptSubmit callback set"
             /\ client'.requests = client.requests
             /\ PromptGets(client'.requests) = {}
             /\ host' = host
             /\ host'.submitted = <<>>
             /\ state' = state]_vars

\* C26 witness: a prompt suggestion was picked with no callback registered
PromptPickedWithoutCallback ==
    /\ ~host.onPromptSubmit
    /\ completion.method = "prompts/list"
    /\ apply.pc = "done"
    /\ apply.name # <<>>

\* C27: with onPromptSubmit registered, picking a prompt suggestion sends
\* one prompts/get request for the name of that prompt; when it is answered
\* the result is handed to the callback, once, and when it fails nothing is
\* handed over; the document does not change on the way.
PromptSubmittedOnce ==
    [][host.onPromptSubmit /\ apply' # apply
          => /\ state' = state
             /\ apply.pc = "idle"
                   => /\ apply'.pc = "getting"
                      /\ \E i \in 1..Len(completion.result.options) :
                           apply'.name
                              = completion.result.options[i].displayLabel
                      /\ client'.requests
                            = Append(client.requests,
                                     [method |-> "prompts/get",
                                      name |-> apply'.name])
                      /\ Cardinality(PromptGets(client'.requests)) = 1
                      /\ host' = host
                      /\ host.submitted = <<>>
             /\ apply.pc = "getting"
                   => /\ apply'.pc = "done"
                      /\ client'.requests = client.requests
                      /\ host'.submitted
                            = IF apply'.error = "none"
                              THEN <<[name |-> apply.name]>>
                              ELSE <<>>
             /\ apply.pc # "done"]_vars

\* C27 witness: the prompt asked for was handed to the callback
PromptHandedOver ==
    /\ host.onPromptSubmit
    /\ apply.pc = "done"
    /\ apply.error = "none"
    /\ Len(host.submitted) = 1
    /\ Cardinality(PromptGets(client.requests)) = 1

\* ------------------------------------- properties: resource conversions

\* C28: a resource the provider returned for a listed record, handed to a
\* resource callback of the host, arrives with the identifier, name,
\* description and MIME type of the listed record and with no other field:
\* neither the payload nor the derived type.
RoundTripKeepsRecord ==
    [][host'.resource # host.resource
          => /\ \E j \in 1..Len(client.returned) :
                  /\ host'.resource[1].uri = client.answered[j].uri
                  /\ host'.resource[1].name = client.answered[j].name
                  /\ host'.resource[1].description
                        = client.answered[j].description
                  /\ host'.resource[1].mimeType = client.answered[j].mimeType
             /\ DOMAIN host'.resource[1]
                   = {"uri", "name", "description", "mimeType"}]_vars

\* C28 witness: a record with a description and a payload was read, and
\* the host was handed it
ReadResourceHandedOver ==
    /\ Len(client.returned) = 1
    /\ client.returned[1].data = "c"
    /\ client.returned[1].description = "d1"
    /\ host.resource = client.answered

\* the three characters that end the scheme of an identifier
SchemeSeparatorAt(uri) ==
    {i \in 1..(Len(uri) - 2) : SubSeq(uri, i, i + 2) = <<":", "/", "/">>}

\* C29: the type of every resource the provider returns is the part of its
\* identifier before the first '://', and 'unknown' when the identifier has
\* no '://' (the empty identifier too).
TypeIsSchemeOrUnknown ==
    \A j \in 1..Len(client.returned) :
      client.returned[j].type
         = IF SchemeSeparatorAt(client.returned[j].uri) = {}
           THEN <<"u", "n", "k", "n", "o", "w", "n">>
           ELSE SubSeq(client.returned[j].uri, 1,
                       Min(SchemeSeparatorAt(client.returned[j].uri)) - 1)

\* C30: what extractResources returned is, in document order, one element
\* for each token of the whole document whose identifier is in the store,
\* with the entry of the store and the offsets of the token, '@' included;
\* there is nothing for the other tokens, and nothing at all for a document
\* without tokens.
ExtractedAreResolvedTokens ==
    callsLeft = 0
       => /\ \A k \in 1..Len(host.extracted) :
               /\ \E t \in TokensOf(state.doc) :
                    /\ t.from = host.extracted[k].start
                    /\ t.to = host.extracted[k].end
                    /\ t.uri \in DOMAIN resourcesOf(heap, state)
                    /\ host.extracted[k].resource
                          = resourcesOf(heap, state)[t.uri]
               /\ state.doc[host.extracted[k].start + 1] = "@"
               /\ \A l \in 1..Len(host.extracted) :
                    k < l => host.extracted[k].end <= host.extracted[l].start
          /\ \A t \in TokensOf(state.doc) :
               t.uri \in DOMAIN resourcesOf(heap, state)
                  => \E k \in 1..Len(host.extracted) :
                       host.extracted[k].start = t.from
          /\ TokensOf(state.doc) = {} => host.extracted = <<>>

\* C30 witness: of the two tokens of the document the second is in the
\* store, and is what was extracted
SecondTokenExtracted ==
    /\ callsLeft = 0
    /\ Cardinality(TokensOf(state.doc)) = 2
    /\ Len(host.extracted) = 1
    /\ host.extracted[1].start > 0

\* --------------------------------------------------- properties: the hover

\* C31: a hover at a position of any line returns the resolved token that
\* has the position between its start and its end, both included, with the
\* offsets of the token in the document, and returns nothing when no resolved
\* token of the document has; it changes neither the document nor the store.
HoverFindsResolvedToken ==
    [][host'.tooltip # host.tooltip
          => /\ state' = state
             /\ heap' = heap
             /\ host'.tooltip[1].result # <<>>
                   => \E t \in TokensOf(state.doc) :
                        /\ t.uri \in DOMAIN resourcesOf(heap, state)
                        /\ t.from <= host'.tooltip[1].pos
                        /\ host'.tooltip[1].pos <= t.to
                        /\ host'.tooltip[1].result[1].start = t.from
                        /\ host'.tooltip[1].result[1].end = t.to
                        /\ host'.tooltip[1].result[1].resource
                              = resourcesOf(heap, state)[t.uri]
             /\ host'.tooltip[1].result = <<>>
                   => \A t \in TokensOf(state.doc) :
                        \/ t.uri \notin DOMAIN resourcesOf(heap, state)
                        \/ host'.tooltip[1].pos < t.from
                        \/ host'.tooltip[1].pos > t.to]_vars

\* ------------------------------------------ properties: overlapping calls

\* the list requests sent so far
ListRequests(requests) ==
    {i \in 1..Len(requests) : requests[i].method = "resources/list"}

\* the step is the answer to a call's list request, with a list that is
\* not empty
ListAnsweredNow ==
    /\ SourceReturned
    /\ completion'.failure = "none"
    /\ completion'.listed # <<>>

\* the store after the step is the store before it with the listed entries
\* merged in: per identifier the last listed entry, else the old entry
ListedMergedNow ==
    /\ DOMAIN heap'[state'.resources]
          = DOMAIN Store \cup {completion'.listed[i].uri :
                                 i \in 1..Len(completion'.listed)}
    /\ \A k \in DOMAIN Store :
         (\A i \in 1..Len(completion'.listed) : completion'.listed[i].uri # k)
            => heap'[state'.resources][k] = Store[k]
    /\ \A i \in 1..Len(completion'.listed) :
         (\A j \in (i + 1)..Len(completion'.listed) :
            completion'.listed[j].uri # completion'.listed[i].uri)
            => heap'[state'.resources][completion'.listed[i].uri]
                  = completion'.listed[i]

\* C32 as stated: every call of the source that gets as far as the request
\* sends a list request of its own, whatever is in flight; an answer leaves
\* the other calls in flight, and its entries are merged into the store
\* when it arrives, whatever happened to the document since the call, so
\* that the store is the union of the answers with the entries of the last
\* merge.
OverlappingCallsAllMerged ==
    [][/\ callsLeft' < callsLeft /\ completion'.pc = "fetching"
             => /\ Cardinality(ListRequests(client'.requests))
                      = Cardinality(ListRequests(client.requests)) + 1
                /\ client'.inflight = client.inflight
       /\ ListAnsweredNow
             => /\ client'.inflight = client.inflight
                /\ ListedMergedNow]_vars

\* C32, amended: the same, the merge being that of the calls whose context
\* has a view.
OverlappingCallsMergedIfView ==
    [][/\ callsLeft' < callsLeft /\ completion'.pc = "fetching"
             => /\ Cardinality(ListRequests(client'.requests))
                      = Cardinality(ListRequests(client.requests)) + 1
                /\ client'.inflight = client.inflight
       /\ ListAnsweredNow /\ completion.hasView
             => /\ client'.inflight = client.inflight
                /\ ListedMergedNow]_vars

\* C32, its case: a call made before the user typed got its answer after,
\* while another call is still in flight, and its entry was merged into a
\* store that held an entry of an earlier answer
StaleAnswerMerged ==
    /\ Len(client.inflight) = 1
    /\ Cardinality(ListRequests(client.requests)) = 3
    /\ completion.pc = "done"
    /\ completion.method = "resources/list"
    /\ completion.hasView
    /\ Len(completion.listed) = 1
    /\ completion.word.to < state.selection.head
    /\ Cardinality(DOMAIN Store) = 2
    /\ Store[completion.listed[1].uri] = completion.listed[1]

\* ------------------------------------------- properties: failures and state

\* C33: a completion that ends on a failure, of the connection or of the
\* list request for resources or prompts, dispatches no transaction: the
\* document, the selection, the two stores and the decorations are after the
\* step what they were before it.
FailureLeavesEditorUntouched ==
    [][((callsLeft' < callsLeft /\ client.outcome = "failed")
        \/ (SourceReturned /\ completion'.failure # "none"))
          => /\ state' = state
             /\ heap'[state'.resources] = heap[state.resources]
             /\ heap'[state'.prompts] = heap[state.prompts]
             /\ view' = view
             /\ tr' = tr
             /\ out' = out]_vars

\* C33 witness: the list request of a completion asked after the user typed
\* has failed
FetchFailedAfterTyping ==
    /\ completion.pc = "done"
    /\ completion.failure = "logged"
    /\ completion.word # NoWord
    /\ editsLeft = 0

\* --------------------------------------- properties: filter and matcher

\* C35: a user backward delete with a collapsed cursor that is not at the
\* end of a resolved token, and a forward delete with a collapsed cursor
\* that is not at the start of one (a cursor inside a token included), is
\* returned as it came: no token is removed as a whole.
DeleteOffBoundaryPassedThrough ==
    /\ (CursorDelete("backward")
          /\ \A t \in ResolvedTokens : t.to # StartCursor) => PassedThrough
    /\ (CursorDelete("forward")
          /\ \A t \in ResolvedTokens : t.from # StartCursor) => PassedThrough

\* C36: whenever the filter rewrites a user deletion, what it removes is the
\* span of a token that the matches over the whole pre-transaction document
\* report and whose identifier is in the store.
RewrittenDeletionRemovesToken ==
    (/\ tr.userEvent \in {<<"delete", "backward">>, <<"delete", "forward">>}
     /\ out # SpecOf(tr))
        => \E t \in ResolvedTokens :
             out.changes = <<[from |-> t.from, to |-> t.to, insert |-> <<>>]>>

\* ------------------------------------------- properties: typing at a token

\* the last transaction was a keystroke typed with a collapsed cursor
CursorTyped ==
    /\ tr.userEvent = <<"input", "type">>
    /\ empty(tr.startState.selection)
    /\ Len(tr.changes) = 1

\* the resolved token t of the pre-transaction document is still a token of
\* the document, with the same identifier, where the edit has moved it
StillMatched(t) ==
    \E u \in TokensOf(state.doc) :
       /\ u.uri = t.uri
       /\ u.from = (IF t.from >= StartCursor
                    THEN t.from + Len(out.changes[1].insert) ELSE t.from)

\* C37: a keystroke of non-whitespace text typed with a collapsed cursor at
\* the start or the end of a resolved token leaves that token matched under
\* the same identifier in the resulting document, and a keystroke of
\* whitespace only is passed through unmodified.
TypingKeepsToken ==
    CursorTyped =>
        IF IsAllWhitespace(tr.changes[1].insert) THEN PassedThrough
        ELSE \A t \in ResolvedTokens :
                (t.from = StartCursor \/ t.to = StartCursor) => StillMatched(t)

\* ----------------------------------------- properties: suggested prompts

\* C40, for a '/' completion whose context has a view (the case in which
\* the completion merges at all): whenever the completion returns
\* suggestions, every suggested prompt name resolves in the prompt store,
\* whether the prompt declares arguments or not.
SuggestedPromptsMerged ==
    [][SourceReturned /\ completion.method = "prompts/list"
         /\ ~completion'.result.null /\ completion.hasView
       => \A i \in 1..Len(completion'.result.options) :
            completion'.result.options[i].displayLabel
               \in DOMAIN heap'[state'.prompts]]_vars

\* ------------------------------------------- properties: visible ranges

\* C39: whatever the visible range is, every decoration covers the span of
\* a token that the matcher reports on the whole document and carries that
\* token's identifier: no decoration stands for a token cut at the end of
\* the visible range.
DecorationsAreWholeTokens ==
    \A i \in 1..Len(view.decorations) :
       \E t \in TokensOf(state.doc) :
          /\ t.from = view.decorations[i].from
          /\ t.to = view.decorations[i].to
          /\ t.uri = view.decorations[i].uri

\* ------------------------------------------------- properties: the widgets

\* every decoration has its element, and the element of a resolved widget
\* has the pointer cursor exactly if the options are installed and carry
\* onResourceClick, and a listener per event exactly if its handler is there
AffordancesFollowHandlers ==
    /\ Len(view.dom) = Len(view.decorations)
    /\ \A i \in 1..Len(view.dom) :
          view.decorations[i].widget = "ResourceWidget" =>
             /\ view.dom[i].className = "cm-resource-widget"
             /\ view.dom[i].cursor = "pointer"
                  <=> handler(host.mcpOptions, "onResourceClick")
             /\ \A e \in {"click", "mouseover", "mouseout"} :
                   e \in view.dom[i].listeners
                     <=> handler(host.mcpOptions, HandlerOf(e))

\* the step called onResourceClick once, with the resource of a resolved
\* widget that is drawn: the entry whose identifier the widget stands for
\* and whose name it shows
ClickHandedResolvedEntry ==
    /\ handler(host.mcpOptions, "onResourceClick")
    /\ Len(host'.clicked) = Len(host.clicked) + 1
    /\ SubSeq(host'.clicked, 1, Len(host.clicked)) = host.clicked
    /\ \E i \in 1..Len(view.dom) :
          /\ view.decorations[i].widget = "ResourceWidget"
          /\ view.decorations[i].from = host'.clicked[Len(host'.clicked)].from
          /\ view.decorations[i].uri
                = host'.clicked[Len(host'.clicked)].resource.uri
          /\ view.dom[i].textContent
                = <<"@", host'.clicked[Len(host'.clicked)].resource.name>>

WidgetsShowCurrentName ==
    \A i \in 1..Len(view.dom) :
       view.decorations[i].widget = "ResourceWidget" =>
          view.dom[i].textContent
             = <<"@", Store[view.decorations[i].uri].name>>

=============================================================================
